---- MODULE Spec2Model ----
(***************************************************************************)
(* Space KO bounty converter: the numeric engine shared by the eight       *)
(* front ends (Claude.py, GPT.py, gemini.py, deepseek.py, app.py, app2.py, *)
(* app3.py, app4.py).                                                      *)
(*                                                                         *)
(* Numbers.  The Python code computes in floats.  The model computes in    *)
(* exact rationals [k |-> "num", n, d] (d > 0, lowest terms), so that two  *)
(* results are equal exactly when the real numbers the formulas denote are *)
(* equal; float rounding is not modelled.  A raised ZeroDivisionError, the *)
(* value None, float('inf') and a name that was never assigned are values  *)
(* of their own kind, so that "returns 0" and "raises" are different       *)
(* outcomes.                                                               *)
(***************************************************************************)
EXTENDS Integers, Sequences, FiniteSets, TLC

VARIABLES fn, args, ret, session, gui, cli

vars == <<fn, args, ret, session, gui, cli>>

(***************************************************************************)
(* Bounds of the model: the inputs are the integers 0..Max* (or -1..Max*   *)
(* where the code accepts negative entries) together with the default      *)
(* values of the input widgets.                                            *)
(***************************************************************************)
MaxBuyIn == 2
MaxStack == 2
MaxBB == 2
MaxToken == 2
MaxPot == 2
MaxCall == 2
MaxBounty == 2
MaxEff == 14
MaxFlopPot == 2
MaxLevelsOutside == 2
MaxDiscount == 12

\* Default widget values (the spec's concrete scenario 1).
DefaultBuyIn == 10
DefaultStack == 20000
DefaultBB == 200
DefaultToken == 5
DefaultPot == 10
DefaultCall == 5
\* Flop defaults: Claude.py's effective stack, GPT.py's effective stack and
\* deepseek.py's flop pot; with the small inputs they give the ratios
\* 0.1, 1, 5, 10, 20 and 100.
DefaultEffStack == 100
DefaultGPTEffStack == 40
DefaultFlopPot == 10

(***************************************************************************)
(* Python values                                                           *)
(***************************************************************************)
RECURSIVE GCD(_, _)
GCD(a, b) == IF b = 0 THEN a ELSE GCD(b, a % b)

Abs(x) == IF x < 0 THEN -x ELSE x

\* The rational n/d (d # 0) in lowest terms with a positive denominator.
Rat(n, d) ==
    LET g == GCD(Abs(n), Abs(d))
        s == IF d < 0 THEN -1 ELSE 1
    IN  [k |-> "num", n |-> s * (n \div g), d |-> s * (d \div g)]

Int2Num(i) == [k |-> "num", n |-> i, d |-> 1]

ZeroDivisionError == [k |-> "ZeroDivisionError", n |-> 0, d |-> 1]
PyNone == [k |-> "None", n |-> 0, d |-> 1]
PyInf == [k |-> "inf", n |-> 1, d |-> 1]
Unassigned == [k |-> "unassigned", n |-> 0, d |-> 1]

IsNum(x) == x.k = "num"
Raised(x) == x.k = "ZeroDivisionError"
Zero == Int2Num(0)
One == Int2Num(1)

Add(x, y) == Rat(x.n * y.d + y.n * x.d, x.d * y.d)
Sub(x, y) == Rat(x.n * y.d - y.n * x.d, x.d * y.d)
Mul(x, y) == Rat(x.n * y.n, x.d * y.d)
\* Python's x / y: raises ZeroDivisionError when y == 0.
Div(x, y) == IF y.n = 0 THEN ZeroDivisionError ELSE Rat(x.n * y.d, x.d * y.n)

\* Comparisons; float('inf') is greater than every number.
Lt(x, y) ==
    IF x.k = "inf" THEN FALSE
    ELSE IF y.k = "inf" THEN TRUE
    ELSE x.n * y.d < y.n * x.d
Le(x, y) == x = y \/ Lt(x, y)
IsZero(x) == IsNum(x) /\ x.n = 0
Pos(x) == Lt(Zero, x)

Half == Rat(1, 2)
Hundred == Int2Num(100)

(***************************************************************************)
(* Bounty conversion                                                       *)
(***************************************************************************)
\* A variant of Claude.py bounty_in_bb that never reports less than 1 BB.
Claude_bounty_in_bb_AtLeastOneBB(buy_in, starting_stack, current_bb, token_avg_eur) ==
    IF IsZero(starting_stack) \/ IsZero(current_bb) THEN Zero
    ELSE LET chip_value_eur == Div(buy_in, starting_stack)
             one_bb_in_eur == Mul(current_bb, chip_value_eur)
             bounty == Div(token_avg_eur, one_bb_in_eur)
         IN  IF IsZero(one_bb_in_eur) THEN Zero
             ELSE IF Lt(bounty, One) THEN One ELSE bounty

\* Claude.py bounty_in_bb(buy_in, starting_stack, current_bb, token_avg_eur)
Claude_bounty_in_bb(buy_in, starting_stack, current_bb, token_avg_eur) ==
    IF IsZero(starting_stack) \/ IsZero(current_bb) THEN Zero
    ELSE LET chip_value_eur == Div(buy_in, starting_stack)
             one_bb_in_eur == Mul(current_bb, chip_value_eur)
         IN  IF IsZero(one_bb_in_eur) THEN Zero
             ELSE Div(token_avg_eur, one_bb_in_eur)

\* A variant of the GPT.py conversion that forgets the 50% rule.
GPT_bounty_bb_NoCashShare(buy_in, starting_stack, current_bb, villain_token_avg) ==
    LET chip_value_eur == Div(buy_in, starting_stack)
    IN  IF Raised(chip_value_eur) THEN ZeroDivisionError
        ELSE LET value_of_one_bb_eur == Mul(current_bb, chip_value_eur)
             IN  IF Pos(value_of_one_bb_eur)
                 THEN Div(villain_token_avg, value_of_one_bb_eur)
                 ELSE Zero

\* GPT.py lines 42-45 (module level)
GPT_bounty_bb(buy_in, starting_stack, current_bb, villain_token_avg) ==
    LET chip_value_eur == Div(buy_in, starting_stack)
    IN  IF Raised(chip_value_eur) THEN ZeroDivisionError
        ELSE LET value_of_one_bb_eur == Mul(current_bb, chip_value_eur)
                 effective_bounty_eur == Mul(villain_token_avg, Half)
             IN  IF Pos(value_of_one_bb_eur)
                 THEN Div(effective_bounty_eur, value_of_one_bb_eur)
                 ELSE Zero

\* deepseek.py calculate_bounty_in_bb
deepseek_calculate_bounty_in_bb(buy_in, starting_stack, current_bb, token_avg_eur) ==
    LET chip_value_eur == Div(buy_in, starting_stack)
    IN  IF Raised(chip_value_eur) THEN ZeroDivisionError
        ELSE LET one_bb_in_eur == Mul(current_bb, chip_value_eur)
             IN  IF IsZero(one_bb_in_eur) THEN Zero
                 ELSE Div(token_avg_eur, one_bb_in_eur)

\* app4.py SpaceKOCalculator.__init__: the chip_value_per_euro it stores
\* (ZeroDivisionError when buyin * 0.4 == 0).
App4_chip_value_per_euro(buyin, starting_stack) ==
    Div(starting_stack, Mul(buyin, Rat(4, 10)))

\* app4.py SpaceKOCalculator.calculate_bounty_chips
App4_calculate_bounty_chips(chip_value_per_euro, villain_bounty) ==
    LET immediate_bounty_euros == Div(villain_bounty, Int2Num(2))
    IN  Mul(immediate_bounty_euros, chip_value_per_euro)

\* app4.py SpaceKOCalculator.calculate_bounty_in_bb
App4_calculate_bounty_in_bb(chip_value_per_euro, villain_bounty, current_bb) ==
    LET bounty_chips == App4_calculate_bounty_chips(chip_value_per_euro, villain_bounty)
    IN  IF Pos(current_bb) THEN Div(bounty_chips, current_bb) ELSE Zero

\* app4.py: constructing the calculator, then converting with it.
App4_convert(buyin, starting_stack, villain_bounty, current_bb) ==
    LET chip_value_per_euro == App4_chip_value_per_euro(buyin, starting_stack)
    IN  IF Raised(chip_value_per_euro) THEN ZeroDivisionError
        ELSE App4_calculate_bounty_in_bb(chip_value_per_euro, villain_bounty, current_bb)

\* app.py lines 44-85 (module level): chip_value, then cash_bb, which is
\* assigned only inside "if current_bb > 0 and start_stack > 0".
App_cash_bb(buy_in, start_stack, current_bb, bounty_euro) ==
    LET chip_value == IF Pos(start_stack) THEN Div(buy_in, start_stack) ELSE Zero
    IN  IF Pos(current_bb) /\ Pos(start_stack)
        THEN LET bb_cost_euro == Mul(current_bb, chip_value)
                 total_bounty_bb == Div(bounty_euro, bb_cost_euro)
             IN  IF Raised(total_bounty_bb) THEN ZeroDivisionError
                 ELSE Mul(total_bounty_bb, Half)
        ELSE Unassigned

\* app2.py lines 53-59 (module level): cash_bb starts at 0.0 and is
\* computed inside "if current_bb > 0 and start_stack > 0".
App2_cash_bb(buy_in, start_stack, current_bb, bounty_euro) ==
    LET chip_value == IF Pos(start_stack) THEN Div(buy_in, start_stack) ELSE Zero
    IN  IF Pos(current_bb) /\ Pos(start_stack)
        THEN LET bb_cost_euro == Mul(current_bb, chip_value)
                 total_bounty_bb == Div(bounty_euro, bb_cost_euro)
             IN  IF Raised(total_bounty_bb) THEN ZeroDivisionError
                 ELSE Mul(total_bounty_bb, Half)
        ELSE Zero

\* A variant of the gemini.py conversion whose "/ 2" divides the value of
\* one BB instead of the bounty.
gemini_bounty_in_bb_HalvedBasis(buy_in, start_stack, curr_bb_chips, villain_bounty_eur) ==
    LET chip_to_eur_ratio == Div(buy_in, start_stack)
    IN  IF Raised(chip_to_eur_ratio) THEN ZeroDivisionError
        ELSE LET one_bb_eur == Mul(curr_bb_chips, chip_to_eur_ratio)
             IN  IF Pos(one_bb_eur)
                 THEN Div(villain_bounty_eur, Div(one_bb_eur, Int2Num(2)))
                 ELSE Zero

\* gemini.py lines 49-51 (module level)
gemini_bounty_in_bb(buy_in, start_stack, curr_bb_chips, villain_bounty_eur) ==
    LET chip_to_eur_ratio == Div(buy_in, start_stack)
    IN  IF Raised(chip_to_eur_ratio) THEN ZeroDivisionError
        ELSE LET one_bb_eur == Mul(curr_bb_chips, chip_to_eur_ratio)
             IN  IF Pos(one_bb_eur)
                 THEN Div(Div(villain_bounty_eur, one_bb_eur), Int2Num(2))
                 ELSE Zero

(***************************************************************************)
(* Pot odds / required equity                                              *)
(***************************************************************************)
Pair(std, adj) == [std |-> std, adj |-> adj]
RaisedPair == Pair(ZeroDivisionError, ZeroDivisionError)

\* 100 * a / b as Python computes (a / b) * 100.
Pct(a, b) ==
    LET q == Div(a, b)
    IN  IF Raised(q) THEN ZeroDivisionError ELSE Mul(q, Hundred)

\* A variant of calculate_pot_odds that counts the call twice in the pot.
Claude_calculate_pot_odds_CallTwice(pot_before, amount_to_call, bounty_bb) ==
    LET total_pot == Add(pot_before, Mul(amount_to_call, Int2Num(2)))
    IN  IF IsZero(total_pot) THEN Pair(Zero, Zero)
        ELSE LET odds_without == Pct(amount_to_call, total_pot)
                 odds_with == Pct(amount_to_call, Add(total_pot, bounty_bb))
             IN  IF Raised(odds_with) THEN RaisedPair
                 ELSE Pair(odds_without, odds_with)

\* A variant of calculate_pot_odds that leaves the bounty out of the pot.
Claude_calculate_pot_odds_BountyIgnored(pot_before, amount_to_call, bounty_bb) ==
    LET total_pot == Add(pot_before, amount_to_call)
    IN  IF IsZero(total_pot) THEN Pair(Zero, Zero)
        ELSE LET odds_without == Pct(amount_to_call, total_pot)
                 odds_with == Pct(amount_to_call, total_pot)
             IN  Pair(odds_without, odds_with)

\* Claude.py calculate_pot_odds(pot_before, amount_to_call, bounty_bb)
\* returns (odds_without, odds_with).
Claude_calculate_pot_odds(pot_before, amount_to_call, bounty_bb) ==
    LET total_pot == Add(pot_before, amount_to_call)
    IN  IF IsZero(total_pot) THEN Pair(Zero, Zero)
        ELSE LET odds_without == Pct(amount_to_call, total_pot)
                 odds_with == Pct(amount_to_call, Add(total_pot, bounty_bb))
             IN  IF Raised(odds_with) THEN RaisedPair
                 ELSE Pair(odds_without, odds_with)

\* A variant of calculate_required_equity that takes the bounty out of the
\* pot instead of adding it.
deepseek_calculate_required_equity_BountySubtracted(pot_before, amount_to_call, bounty_bb) ==
    IF IsZero(amount_to_call) THEN Pair(Zero, Zero)
    ELSE LET pot_odds_standard == Div(amount_to_call, Add(pot_before, amount_to_call))
             pot_odds_with_bounty ==
                 Div(amount_to_call, Sub(Add(pot_before, amount_to_call), bounty_bb))
         IN  IF Raised(pot_odds_standard) \/ Raised(pot_odds_with_bounty) THEN RaisedPair
             ELSE Pair(Mul(pot_odds_standard, Hundred), Mul(pot_odds_with_bounty, Hundred))

\* deepseek.py calculate_required_equity(pot_before, amount_to_call, bounty_bb)
deepseek_calculate_required_equity(pot_before, amount_to_call, bounty_bb) ==
    IF IsZero(amount_to_call) THEN Pair(Zero, Zero)
    ELSE LET pot_odds_standard == Div(amount_to_call, Add(pot_before, amount_to_call))
             pot_odds_with_bounty ==
                 Div(amount_to_call, Add(Add(pot_before, amount_to_call), bounty_bb))
         IN  IF Raised(pot_odds_standard) \/ Raised(pot_odds_with_bounty) THEN RaisedPair
             ELSE Pair(Mul(pot_odds_standard, Hundred), Mul(pot_odds_with_bounty, Hundred))

\* app4.py SpaceKOCalculator.calculate_pot_odds(pot_size, bet_to_call,
\* villain_bounty): (equity_with_bounty, equity_without_bounty, bargain),
\* kept here as the pair (std, adj) = (equity_no_bounty, equity_with_bounty).
App4_calculate_pot_odds(chip_value_per_euro, pot_size, bet_to_call, villain_bounty) ==
    LET bounty_chips == App4_calculate_bounty_chips(chip_value_per_euro, villain_bounty)
        equity_no_bounty ==
            IF IsZero(Add(bet_to_call, pot_size)) THEN Zero
            ELSE Pct(bet_to_call, Add(bet_to_call, pot_size))
        total_pot_with_bounty == Add(pot_size, bounty_chips)
        equity_with_bounty ==
            IF IsZero(Add(bet_to_call, total_pot_with_bounty)) THEN Zero
            ELSE Pct(bet_to_call, Add(bet_to_call, total_pot_with_bounty))
    IN  Pair(equity_no_bounty, equity_with_bounty)

\* GPT.py lines 75-89 (module level): the call advisor runs only when
\* st.session_state.bounty_bb > 0; the pot is the pot before the shove.
GPT_equity(session_bounty_bb, pot_before, to_call) ==
    IF Le(session_bounty_bb, Zero) THEN Pair(Unassigned, Unassigned)
    ELSE LET total_pot_std == Add(pot_before, Mul(to_call, Int2Num(2)))
             equity_std == Pct(to_call, total_pot_std)
             total_pot_ko == Add(total_pot_std, session_bounty_bb)
             equity_ko == Pct(to_call, total_pot_ko)
         IN  IF Raised(equity_std) \/ Raised(equity_ko) THEN RaisedPair
             ELSE Pair(equity_std, equity_ko)

\* A variant of the app3.py lookup whose default is the multiplier 1.0.
App3_token_multiplier_DefaultOne(villain_lvl) ==
    CASE villain_lvl = 1 -> Rat(1, 2)
      [] villain_lvl = 2 -> Rat(6, 10)
      [] villain_lvl = 3 -> Rat(3, 4)
      [] villain_lvl = 4 -> Int2Num(1)
      [] villain_lvl = 5 -> Rat(3, 2)
      [] villain_lvl = 6 -> Rat(5, 2)
      [] villain_lvl = 7 -> Int2Num(5)
      [] villain_lvl = 8 -> Int2Num(10)
      [] villain_lvl = 9 -> Int2Num(20)
      [] villain_lvl = 10 -> Int2Num(50)
      [] OTHER -> Int2Num(1)

\* app3.py main, lines 21 and 39-61: one pass of the hand loop.  An
\* exception raised inside the try block is caught at line 85 and printed
\* ("Error: float division by zero"); no equity is printed for that hand.
App3_token_multiplier(villain_lvl) ==
    CASE villain_lvl = 1 -> Rat(1, 2)
      [] villain_lvl = 2 -> Rat(6, 10)
      [] villain_lvl = 3 -> Rat(3, 4)
      [] villain_lvl = 4 -> Int2Num(1)
      [] villain_lvl = 5 -> Rat(3, 2)
      [] villain_lvl = 6 -> Rat(5, 2)
      [] villain_lvl = 7 -> Int2Num(5)
      [] villain_lvl = 8 -> Int2Num(10)
      [] villain_lvl = 9 -> Int2Num(20)
      [] villain_lvl = 10 -> Int2Num(50)
      [] OTHER -> Rat(1, 2)

App3_avg_bounty_total(buy_in, villain_lvl) ==
    IF villain_lvl >= 11 THEN Mul(buy_in, Int2Num(1000))
    ELSE Mul(buy_in, App3_token_multiplier(villain_lvl))

App3_hand(buy_in, starting_stack, villain_shove, current_pot, villain_lvl, hero_call_amount) ==
    LET chip_euro_value == Div(Mul(buy_in, Rat(4, 10)), starting_stack)
        avg_bounty_total == App3_avg_bounty_total(buy_in, villain_lvl)
        immediate_cash_bounty == Mul(avg_bounty_total, Half)
        bounty_in_chips == Div(immediate_cash_bounty, chip_euro_value)
        total_pot_standard == Add(Add(current_pot, villain_shove), hero_call_amount)
        standard_equity_needed == Pct(hero_call_amount, total_pot_standard)
    IN  IF Raised(chip_euro_value) \/ Raised(bounty_in_chips) \/ Raised(standard_equity_needed)
        THEN RaisedPair
        ELSE LET total_pot_ko == Add(total_pot_standard, bounty_in_chips)
                 ko_equity_needed == Pct(hero_call_amount, total_pot_ko)
             IN  IF Raised(ko_equity_needed) THEN RaisedPair
                 ELSE Pair(standard_equity_needed, ko_equity_needed)

(***************************************************************************)
(* SPR and commitment bands                                                *)
(***************************************************************************)
\* Claude.py calculate_spr
Claude_calculate_spr(effective_stack, pot_on_flop) ==
    IF IsZero(pot_on_flop) THEN Zero ELSE Div(effective_stack, pot_on_flop)

\* deepseek.py calculate_spr
deepseek_calculate_spr(effective_stack, pot_on_flop) ==
    IF IsZero(pot_on_flop) THEN Zero ELSE Div(effective_stack, pot_on_flop)

\* app4.py SpaceKOCalculator.calculate_spr
App4_calculate_spr(effective_stack, pot_size) ==
    IF IsZero(pot_size) THEN PyInf ELSE Div(effective_stack, pot_size)

\* Claude.py get_spr_interpretation
Claude_get_spr_interpretation(spr) ==
    IF Lt(spr, Int2Num(2)) THEN "Very Low"
    ELSE IF Lt(spr, Int2Num(4)) THEN "Low"
    ELSE IF Lt(spr, Int2Num(7)) THEN "Medium"
    ELSE IF Lt(spr, Int2Num(13)) THEN "High"
    ELSE "Very High"

\* A variant of get_spr_risk_level whose middle tests are out of order.
App4_get_spr_risk_level_Misordered(spr) ==
    IF Lt(spr, Int2Num(1)) THEN "Very Low"
    ELSE IF Lt(spr, Int2Num(3)) THEN "Medium"
    ELSE IF Lt(spr, Int2Num(6)) THEN "Low"
    ELSE IF Lt(spr, Int2Num(13)) THEN "High"
    ELSE "Very High"

\* app4.py SpaceKOCalculator.get_spr_risk_level
App4_get_spr_risk_level(spr) ==
    IF Lt(spr, Int2Num(1)) THEN "Very Low"
    ELSE IF Lt(spr, Int2Num(3)) THEN "Low"
    ELSE IF Lt(spr, Int2Num(6)) THEN "Medium"
    ELSE IF Lt(spr, Int2Num(13)) THEN "High"
    ELSE "Very High"

\* deepseek.py lines 340-359 (module level): the SPR card names a band only
\* when spr_value > 0 and otherwise shows "Enter stack & pot values".
NoBand == "none"
deepseek_spr_band(spr_value) ==
    IF Pos(spr_value)
    THEN IF Lt(spr_value, Int2Num(2)) THEN "Very Low"
         ELSE IF Lt(spr_value, Int2Num(4)) THEN "Low"
         ELSE IF Lt(spr_value, Int2Num(10)) THEN "Medium"
         ELSE "High"
    ELSE NoBand

Min(a, b) == IF Lt(a, b) THEN a ELSE b

\* app4.py SpaceKOApp.calculate lines 310-312 and display_results lines
\* 367-380: the SPR, its band, and whether the SPR block is written.
App4_calculate_spr_section(our_stack, villain_stack, pot_size) ==
    LET effective_stack ==
            IF Pos(our_stack) /\ Pos(villain_stack) THEN Min(our_stack, villain_stack) ELSE Zero
        spr == IF Pos(effective_stack) THEN App4_calculate_spr(effective_stack, pot_size) ELSE Zero
        spr_risk == App4_get_spr_risk_level(spr)
    IN  [spr |-> spr, band |-> spr_risk, displayed |-> Pos(spr)]

(***************************************************************************)
(* Real numbers for geometric sizing                                       *)
(*                                                                         *)
(* The sizings are roots: (root_n(1 + 2*ratio) - 1) / 2.  The model keeps  *)
(* them exact, as elements c[1] + c[2]*s + c[3]*s^2 of Q(s) where s is the *)
(* real root of s^deg = q, q an integer > 1 with no deg-th power factor    *)
(* (so 1, s, s^2 are linearly independent over Q and equal numbers have    *)
(* equal representations).  A number with c[2] = c[3] = 0 is kept as the   *)
(* plain rational.  np.roots, math.sqrt, math.pow and ** are modelled by   *)
(* the exact roots they approximate.                                       *)
(***************************************************************************)
\* Python evaluates the right-hand side of an assignment once, before the
\* statements that use the name; the model binds such a value with
\* x \in {value} and takes the only element of the resulting set.
Only(S) == CHOOSE x \in S : TRUE

RECURSIVE IntPow(_, _)
IntPow(b, e) == IF e = 0 THEN 1 ELSE b * IntPow(b, e - 1)

MaxOf(S) == CHOOSE x \in S : \A y \in S : y <= x

Two == Int2Num(2)
Neg(x) == Rat(-x.n, x.d)

Coefs(x) == IF x.k = "num" THEN <<x, Zero, Zero>> ELSE x.c
RadicandOf(x, y) == IF x.k = "alg" THEN x.q ELSE IF y.k = "alg" THEN y.q ELSE 1
DegreeOf(x, y) == IF x.k = "alg" THEN x.deg ELSE IF y.k = "alg" THEN y.deg ELSE 1

MkReal(c, q, deg) ==
    IF IsZero(c[2]) /\ IsZero(c[3]) THEN c[1]
    ELSE [k |-> "alg", c |-> c, q |-> q, deg |-> deg]

RealAdd(x, y) ==
    LET a == Coefs(x)
        b == Coefs(y)
    IN  MkReal(<<Add(a[1], b[1]), Add(a[2], b[2]), Add(a[3], b[3])>>,
               RadicandOf(x, y), DegreeOf(x, y))

RealNeg(x) ==
    LET a == Coefs(x)
    IN  MkReal(<<Neg(a[1]), Neg(a[2]), Neg(a[3])>>, RadicandOf(x, x), DegreeOf(x, x))

RealSub(x, y) == RealAdd(x, RealNeg(y))

RealMul(x, y) ==
    LET a == Coefs(x)
        b == Coefs(y)
        q == Int2Num(RadicandOf(x, y))
        deg == DegreeOf(x, y)
    IN  IF deg = 3
        THEN MkReal(<<Add(Mul(a[1], b[1]), Mul(q, Add(Mul(a[2], b[3]), Mul(a[3], b[2])))),
                      Add(Add(Mul(a[1], b[2]), Mul(a[2], b[1])), Mul(q, Mul(a[3], b[3]))),
                      Add(Add(Mul(a[1], b[3]), Mul(a[2], b[2])), Mul(a[3], b[1]))>>,
                    RadicandOf(x, y), deg)
        ELSE MkReal(<<Add(Mul(a[1], b[1]), Mul(q, Mul(a[2], b[2]))),
                      Add(Mul(a[1], b[2]), Mul(a[2], b[1])),
                      Zero>>,
                    RadicandOf(x, y), deg)

\* x / y for a rational y: raises ZeroDivisionError when y == 0.
RealDiv(x, y) == IF IsZero(y) THEN ZeroDivisionError ELSE RealMul(x, Div(One, y))

\* The sign (-1, 0, 1) of a rational or of a + b*s (s > 0, s^deg = q).
RealSign(x) ==
    IF x.k = "num" THEN (IF x.n < 0 THEN -1 ELSE IF x.n = 0 THEN 0 ELSE 1)
    ELSE LET a == x.c[1]
             b == x.c[2]
             sb == IF b.n < 0 THEN -1 ELSE 1
             t == Div(Neg(a), b)
             sAboveT ==
                 IF t.n <= 0 THEN TRUE
                 ELSE x.q * IntPow(t.d, x.deg) > IntPow(t.n, x.deg)
         IN  IF sAboveT THEN sb ELSE -sb

RealLt(x, y) == RealSign(RealSub(x, y)) < 0
RealLe(x, y) == RealSign(RealSub(x, y)) <= 0
RealPos(x) == RealSign(x) > 0
RealMax(x, y) == IF RealLt(x, y) THEN y ELSE x
RealMin(x, y) == IF RealLt(y, x) THEN y ELSE x

\* The real deg-th root of the rational D (D >= 0 when deg = 2).
NthRoot(D, deg) ==
    IF D.n = 0 THEN Zero
    ELSE LET sgn == IF D.n < 0 THEN -1 ELSE 1
             m == Abs(D.n) * IntPow(D.d, deg - 1)
             kk == MaxOf({i \in 1..m : i * i <= m /\ IntPow(i, deg) <= m
                                          /\ m % IntPow(i, deg) = 0})
             free == m \div IntPow(kk, deg)
             coef == Rat(sgn * kk, D.d)
         IN  IF free = 1 THEN coef
             ELSE MkReal(<<Zero, coef, Zero>>, free, deg)

\* numpy.roots([2, 2, -ratio]): the roots of 2r^2 + 2r - ratio, each with
\* its real part and the sign of its imaginary part.
np_roots_quadratic(ratio) ==
    LET D == Add(One, Mul(Two, ratio))
    IN  IF D.n < 0
        THEN {[re |-> Rat(-1, 2), im |-> 1], [re |-> Rat(-1, 2), im |-> -1]}
        ELSE LET s == NthRoot(D, 2)
             IN  {[re |-> RealDiv(RealSub(s, One), Two), im |-> 0],
                  [re |-> RealDiv(RealSub(RealNeg(s), One), Two), im |-> 0]}

\* numpy.roots([4, 6, 3, -ratio]): 4r^3 + 6r^2 + 3r - ratio is
\* ((1 + 2r)^3 - (1 + 2*ratio)) / 2, so 1 + 2r is a cube root of 1 + 2*ratio.
np_roots_cubic(ratio) ==
    LET D == Add(One, Mul(Two, ratio))
        c == NthRoot(D, 3)
        pairRe == RealDiv(RealSub(RealDiv(RealNeg(c), Two), One), Two)
        pairIm == RealSign(c)
    IN  {[re |-> RealDiv(RealSub(c, One), Two), im |-> 0],
         [re |-> pairRe, im |-> pairIm],
         [re |-> pairRe, im |-> -pairIm]}

RECURSIVE RealMaxOf(_, _)
\* max(S, default=d)
RealMaxOf(S, d) ==
    IF S = {} THEN d
    ELSE LET x == CHOOSE y \in S : TRUE
             rest == S \ {x}
         IN  IF rest = {} THEN x ELSE RealMax(x, RealMaxOf(rest, d))

(***************************************************************************)
(* Geometric bet sizing                                                    *)
(***************************************************************************)
Sizing(pct2, pct3) == [pct2 |-> pct2, pct3 |-> pct3]

\* A variant of Claude.py geometric_bet_sizing that returns the fractions
\* themselves, not percentages.
Claude_geometric_bet_sizing_FractionReturned(pot_on_flop, effective_stack) ==
    IF IsZero(pot_on_flop) THEN Sizing(Zero, Zero)
    ELSE LET ratio == Div(effective_stack, pot_on_flop)
             roots_turn == np_roots_quadratic(ratio)
             r_turn == RealMaxOf({r.re : r \in {x \in roots_turn : RealPos(x.re) /\ x.im = 0}}, Zero)
             roots_river == np_roots_cubic(ratio)
             r_river == RealMaxOf({r.re : r \in {x \in roots_river : RealPos(x.re) /\ x.im = 0}}, Zero)
         IN  Sizing(r_turn, r_river)

\* Claude.py geometric_bet_sizing(pot_on_flop, effective_stack): the pair
\* (r_turn * 100, r_river * 100).
Claude_geometric_bet_sizing(pot_on_flop, effective_stack) ==
    IF IsZero(pot_on_flop) THEN Sizing(Zero, Zero)
    ELSE LET ratio == Div(effective_stack, pot_on_flop)
             roots_turn == np_roots_quadratic(ratio)
             r_turn == RealMaxOf({r.re : r \in {x \in roots_turn : RealPos(x.re) /\ x.im = 0}}, Zero)
             roots_river == np_roots_cubic(ratio)
             r_river == RealMaxOf({r.re : r \in {x \in roots_river : RealPos(x.re) /\ x.im = 0}}, Zero)
         IN  Sizing(RealMul(r_turn, Hundred), RealMul(r_river, Hundred))

\* deepseek.py lines 237 and 247: max(0, min(r * 100, 200))
deepseek_clamp_pct(root) ==
    Only({RealMax(Zero, capped) :
            capped \in {RealMin(pct, Int2Num(200)) : pct \in {RealMul(root, Hundred)}}})

\* deepseek.py lines 226-237: the streets == 2 branch, a, b, c = 2, 2, -ratio.
deepseek_quadratic(a, b, c) ==
    LET discriminant == Sub(Mul(b, b), Mul(Mul(Int2Num(4), a), c))
    IN  IF Lt(discriminant, Zero) THEN Zero
        ELSE LET sqrt == {NthRoot(discriminant, 2)}
                 r1s == {RealDiv(RealAdd(Neg(b), s), Mul(Two, a)) : s \in sqrt}
                 r2s == {RealDiv(RealSub(Neg(b), s), Mul(Two, a)) : s \in sqrt}
                 rs == {IF RealLe(Zero, r1) /\ RealLe(r1, Two) THEN RealMax(r1, r2) ELSE r2 :
                          r1 \in r1s, r2 \in r2s}
             IN  Only({deepseek_clamp_pct(r) : r \in rs})

\* deepseek.py calculate_geometric_sizing(effective_stack, pot_on_flop, streets)
deepseek_calculate_geometric_sizing(effective_stack, pot_on_flop, streets) ==
    IF IsZero(pot_on_flop) THEN Zero
    ELSE LET ratio == Div(effective_stack, pot_on_flop)
         IN  IF streets = 2
             THEN deepseek_quadratic(Two, Two, Neg(ratio))
             ELSE IF streets = 3
             THEN LET roots == np_roots_cubic(ratio)
                      inRange == {x \in roots : x.im = 0 /\ RealLe(Zero, x.re) /\ RealLe(x.re, Two)}
                  IN  IF inRange = {} THEN Zero
                      ELSE deepseek_clamp_pct((CHOOSE x \in inRange : TRUE).re)
             ELSE PyNone

\* A variant of gemini.py solve_geometric that forgets the caller's chips:
\* (1 + 2r)^n = stack / pot + 1.
gemini_solve_geometric_CallForgotten(streets, stack, pot) ==
    IF Le(pot, Zero) \/ Le(stack, Zero) THEN Zero
    ELSE IF streets = 0 THEN ZeroDivisionError
    ELSE LET base == Add(Div(stack, pot), One)
             root == IF streets = 1 THEN base
                     ELSE IF streets = -1 THEN Div(One, base)
                     ELSE NthRoot(base, streets)
             r == RealDiv(RealSub(root, One), Two)
         IN  RealMul(r, Hundred)

\* gemini.py solve_geometric(streets, stack, pot); x ** (1/streets) raises
\* ZeroDivisionError for streets == 0.
gemini_solve_geometric(streets, stack, pot) ==
    IF Le(pot, Zero) \/ Le(stack, Zero) THEN Zero
    ELSE IF streets = 0 THEN ZeroDivisionError
    ELSE LET base == Add(Div(Mul(Two, stack), pot), One)
             root == IF streets = 1 THEN base
                     ELSE IF streets = -1 THEN Div(One, base)
                     ELSE NthRoot(base, streets)
             r == RealDiv(RealSub(root, One), Two)
         IN  RealMul(r, Hundred)

\* GPT.py lines 112-121 (module level): spr, geo_2 and geo_3 as fractions
\* of the pot.
GPT_geo(eff_stack, flop_pot) ==
    LET spr == IF Pos(flop_pot) THEN Div(eff_stack, flop_pot) ELSE Zero
        geo_2 == IF Pos(spr)
                 THEN RealDiv(RealSub(NthRoot(Add(Mul(Two, spr), One), 2), One), Two)
                 ELSE Zero
        geo_3 == IF Pos(spr) THEN RealSub(NthRoot(Add(One, spr), 3), One) ELSE Zero
    IN  [geo_2 |-> geo_2, geo_3 |-> geo_3]

\* app4.py SpaceKOCalculator.calculate_geometric_sizing(effective_stack,
\* pot_size, streets_remaining): (bet_size, bet_percentage) or (None, None).
App4_calculate_geometric_sizing(effective_stack, pot_size, streets_remaining) ==
    IF streets_remaining <= 0 \/ Le(pot_size, Zero) THEN [bet |-> PyNone, pct |-> PyNone]
    ELSE LET bet_size == Div(Sub(effective_stack, pot_size), Two)
         IN  IF Le(bet_size, Zero) \/ Lt(effective_stack, bet_size)
             THEN [bet |-> PyNone, pct |-> PyNone]
             ELSE [bet |-> bet_size,
                   pct |-> IF Pos(pot_size) THEN Pct(bet_size, pot_size) ELSE Zero]

(***************************************************************************)
(* Text entry                                                              *)
(***************************************************************************)
NaN == [k |-> "nan", n |-> 0, d |-> 1]
ValueError == [k |-> "ValueError", n |-> 0, d |-> 1]
IsNaN(x) == x.k = "nan"

\* The decimal literals that are typed in the model, with their values.
Literals ==
    ("-1" :> Int2Num(-1)) @@ ("0" :> Zero) @@ ("2.5" :> Rat(5, 2)) @@ ("5" :> Int2Num(5))
    @@ ("10" :> Int2Num(10)) @@ ("50" :> Int2Num(50)) @@ ("100" :> Int2Num(100))
    @@ ("200" :> Int2Num(200)) @@ ("20000" :> Int2Num(20000))

\* Python's float(text): the value of a decimal literal, nan for "nan",
\* ValueError for the empty string and for any other text.
Py_float(text) ==
    IF text \in DOMAIN Literals THEN Literals[text]
    ELSE IF text = "nan" THEN NaN
    ELSE ValueError

\* Python's int(text): the value of an integer literal; ValueError for
\* "2.5", "nan", the empty string and any other text.
Py_int(text) ==
    IF text \in DOMAIN Literals /\ Literals[text].d = 1 THEN Literals[text]
    ELSE ValueError

\* Comparisons of floats, false whenever an operand is nan.
FLt(x, y) == ~IsNaN(x) /\ ~IsNaN(y) /\ Lt(x, y)
FLe(x, y) == ~IsNaN(x) /\ ~IsNaN(y) /\ Le(x, y)

(***************************************************************************)
(* Equity-discount bands                                                   *)
(***************************************************************************)
\* A variant of the GPT.py bands whose middle test leaves out its lower end.
GPT_reduction_band_OpenLowerEnd(reduction) ==
    IF Lt(reduction, Int2Num(3)) THEN "Small Impact"
    ELSE IF Lt(Int2Num(3), reduction) /\ Le(reduction, Int2Num(7)) THEN "Noticeable Impact"
    ELSE "Significant Impact"

\* GPT.py lines 95-100 (module level)
GPT_reduction_band(reduction) ==
    IF Lt(reduction, Int2Num(3)) THEN "Small Impact"
    ELSE IF Le(Int2Num(3), reduction) /\ Le(reduction, Int2Num(7)) THEN
        "Noticeable Impact"
    ELSE "Significant Impact"

\* app2.py lines 116-124 (module level)
App2_verdict(equity_discount) ==
    IF Lt(Int2Num(10), equity_discount) THEN "HUGE DISCOUNT"
    ELSE IF Lt(Int2Num(5), equity_discount) THEN "Significant"
    ELSE "Standard"

\* app4.py SpaceKOApp.display_results line 353
App4_equity_color(bargain) ==
    IF Lt(Int2Num(5), bargain) THEN "green"
    ELSE IF Lt(Int2Num(2), bargain) THEN "yellow"
    ELSE "white"

(***************************************************************************)
(* app4.py: the Tk application                                             *)
(*                                                                         *)
(* The application is the record of its StringVars, its calculator and the *)
(* content of its results widget.  A handler returns the application it    *)
(* leaves together with what it did: the message boxes it showed, the      *)
(* number of calculate() calls and the number of display_results() calls.  *)
(***************************************************************************)
\* app4.py SpaceKOCalculator.__init__; float arithmetic with nan gives nan.
App4_SpaceKOCalculator(buyin, starting_stack) ==
    [buyin |-> buyin, starting_stack |-> starting_stack,
     chip_value_per_euro |->
         IF IsNaN(buyin) \/ IsNaN(starting_stack) THEN NaN
         ELSE App4_chip_value_per_euro(buyin, starting_stack)]

\* app4.py SpaceKOApp.__init__ with create_config_section,
\* create_hand_section and create_results_section.
App4_SpaceKOApp ==
    [calculator |-> PyNone,
     buyin_var |-> "10", stack_var |-> "20000",
     our_stack_var |-> "", villain_stack_var |-> "", villain_bounty_var |-> "",
     current_bb_var |-> "", pot_var |-> "", bet_var |-> "",
     street_var |-> "Flop",
     results_text |-> <<>>]

Outcome(app, dialogs, calculations, rewrites) ==
    [app |-> app, dialogs |-> dialogs, calculations |-> calculations, rewrites |-> rewrites]

\* app4.py SpaceKOApp.initialize_calculator
App4_initialize_calculator(app) ==
    LET buyin == Py_float(app.buyin_var)
        starting_stack == Py_float(app.stack_var)
    IN  IF buyin = ValueError \/ starting_stack = ValueError
        THEN Outcome(app, <<"showerror">>, 0, 0)
        ELSE IF FLe(buyin, Zero) \/ FLe(starting_stack, Zero)
        THEN Outcome(app, <<"showerror">>, 0, 0)
        ELSE Outcome([app EXCEPT !.calculator = App4_SpaceKOCalculator(buyin, starting_stack)],
                     <<"showinfo">>, 0, 0)

\* app4.py SpaceKOApp.display_results: the text it writes, block by block
\* (the results widget holds <<>> when empty and <<text>> after a call).
App4_display_results(bounty_bb, bounty_chips, odds, bargain, section, geo, street, bet_to_call, pot_size) ==
    [bounty |-> [bb |-> bounty_bb, chips |-> bounty_chips],
     equity |->
         IF FLt(Zero, bet_to_call)
         THEN [with |-> odds.adj, without |-> odds.std, bargain |-> bargain,
               color |-> IF IsNaN(bargain) THEN "white" ELSE App4_equity_color(bargain),
               ratio |-> IF FLt(Zero, pot_size)
                         THEN IF IsNaN(bounty_chips) THEN NaN
                              ELSE Div(Add(pot_size, bounty_chips), bet_to_call)
                         ELSE PyNone]
         ELSE [with |-> PyNone, without |-> PyNone, bargain |-> PyNone,
               color |-> "", ratio |-> PyNone],
     spr |-> IF section.displayed THEN [spr |-> section.spr, risk |-> section.band]
             ELSE [spr |-> PyNone, risk |-> ""],
     geo |-> IF geo.bet \notin {PyNone, Zero} /\ geo.pct \notin {PyNone, Zero}
             THEN [next |-> IF street = "Flop" THEN "Turn" ELSE "River",
                   bet |-> geo.bet, pct |-> geo.pct]
             ELSE [next |-> "", bet |-> PyNone, pct |-> PyNone]]

App4_streets_map == ("Flop" :> 2) @@ ("Turn" :> 1) @@ ("River" :> 0)

\* float(var.get()) if var.get() else 0
FloatOrZero(text) == IF text = "" THEN Zero ELSE Py_float(text)

\* A variant of calculate that builds its calculator from the settings
\* fields on every call.
App4_calculate_FromSettings(app) ==
    App4_initialize_calculator(app)

\* app4.py SpaceKOApp.calculate
App4_calculate(app) ==
    IF app.calculator = PyNone THEN Outcome(app, <<"showwarning">>, 1, 0)
    ELSE
    LET our_stack == FloatOrZero(app.our_stack_var)
        villain_stack == FloatOrZero(app.villain_stack_var)
        villain_bounty == Py_float(app.villain_bounty_var)
        current_bb == Py_float(app.current_bb_var)
        pot_size == Py_float(app.pot_var)
        bet_to_call == FloatOrZero(app.bet_var)
        street == app.street_var
        chip == app.calculator.chip_value_per_euro
    IN  IF ValueError \in {our_stack, villain_stack, villain_bounty, current_bb, pot_size,
                           bet_to_call}
        THEN Outcome(app, <<"showerror">>, 1, 0)
        ELSE IF FLt(villain_bounty, Zero) \/ FLe(current_bb, Zero) \/ FLt(pot_size, Zero)
        THEN Outcome(app, <<"showerror">>, 1, 0)
        ELSE
        LET bounty_chips == IF IsNaN(chip) THEN NaN
                            ELSE App4_calculate_bounty_chips(chip, villain_bounty)
            bounty_bb == IF FLt(Zero, current_bb)
                         THEN IF IsNaN(bounty_chips) THEN NaN
                              ELSE Div(bounty_chips, current_bb)
                         ELSE Zero
            odds == IF IsNaN(chip)
                    THEN Pair(App4_calculate_pot_odds(One, pot_size, bet_to_call,
                                                      villain_bounty).std, NaN)
                    ELSE App4_calculate_pot_odds(chip, pot_size, bet_to_call, villain_bounty)
            bargain == IF IsNaN(odds.adj) THEN NaN ELSE Sub(odds.std, odds.adj)
            section == App4_calculate_spr_section(our_stack, villain_stack, pot_size)
            effective_stack ==
                IF Pos(our_stack) /\ Pos(villain_stack) THEN Min(our_stack, villain_stack)
                ELSE Zero
            streets_remaining == App4_streets_map[street]
            geo == IF Pos(effective_stack) /\ streets_remaining > 0
                   THEN App4_calculate_geometric_sizing(effective_stack, pot_size,
                                                        streets_remaining)
                   ELSE [bet |-> PyNone, pct |-> PyNone]
        IN  Outcome([app EXCEPT !.results_text =
                         <<App4_display_results(bounty_bb, bounty_chips, odds, bargain, section,
                                                geo, street, bet_to_call, pot_size)>>],
                    <<>>, 1, 1)

\* A variant of auto_calculate that does not look at the calculator.
App4_auto_calculate_AnyCalculator(app) ==
    IF app.villain_bounty_var # "" /\ app.current_bb_var # "" /\ app.pot_var # ""
    THEN App4_calculate(app)
    ELSE Outcome(app, <<>>, 0, 0)

\* app4.py SpaceKOApp.auto_calculate
App4_auto_calculate(app) ==
    IF /\ app.calculator # PyNone
       /\ app.villain_bounty_var # ""
       /\ app.current_bb_var # ""
       /\ app.pot_var # ""
    THEN App4_calculate(app)
    ELSE Outcome(app, <<>>, 0, 0)

\* The six traced StringVars (create_hand_section lines 227-230).
HandVars ==
    {"our_stack_var", "villain_stack_var", "villain_bounty_var", "current_bb_var",
     "pot_var", "bet_var"}

\* var.set(text) on a traced variable of the application that the outcome
\* so far has left: the write, then the trace's auto_calculate.
App4_set(before, var, text) ==
    Only({Outcome(traced.app, before.dialogs \o traced.dialogs,
                  before.calculations + traced.calculations,
                  before.rewrites + traced.rewrites) :
            traced \in {App4_auto_calculate([before.app EXCEPT ![var] = text])}})

\* var.set("") on each of the traced variables in turn.
RECURSIVE App4_set_each(_, _)
App4_set_each(before, variables) ==
    IF variables = <<>> THEN before
    ELSE Only({App4_set_each(after, Tail(variables)) :
                 after \in {App4_set(before, Head(variables), "")}})

\* A variant of clear_hand that empties the results widget first.
App4_clear_hand_ResultsFirst(app) ==
    Only({[cleared EXCEPT !.app.street_var = "Flop"] :
            cleared \in {App4_set_each(Outcome([app EXCEPT !.results_text = <<>>], <<>>, 0, 0),
                                       <<"our_stack_var", "villain_stack_var",
                                         "villain_bounty_var", "current_bb_var", "pot_var",
                                         "bet_var">>)}})

\* app4.py SpaceKOApp.clear_hand
App4_clear_hand(app) ==
    Only({[cleared EXCEPT !.app.street_var = "Flop", !.app.results_text = <<>>] :
            cleared \in {App4_set_each(Outcome(app, <<>>, 0, 0),
                                       <<"our_stack_var", "villain_stack_var",
                                         "villain_bounty_var", "current_bb_var", "pot_var",
                                         "bet_var">>)}})

(***************************************************************************)
(* app3.py: the command-line tool                                          *)
(*                                                                         *)
(* The tool is the record of main's local variables, the prompt it waits   *)
(* at (pc) and the last thing it printed (out).  One step is one line      *)
(* typed at the prompt, a Ctrl-C or an end of input.                       *)
(***************************************************************************)
\* The prompts of main in order: three of the setup, four of a hand.
App3_prompts ==
    <<"buy_in", "starting_stack", "bb_value",
      "villain_shove", "current_pot", "villain_lvl", "hero_call_amount">>
SetupPrompts == {App3_prompts[i] : i \in 1..3}
HandPrompts == {App3_prompts[i] : i \in 4..7}

Printed(kind, report) == [kind |-> kind, report |-> report]

\* app3.py main before its first prompt.
App3_main ==
    [pc |-> "buy_in",
     buy_in |-> Unassigned, starting_stack |-> Unassigned, bb_value |-> Unassigned,
     chip_euro_value |-> Unassigned,
     villain_shove |-> Unassigned, current_pot |-> Unassigned, villain_lvl |-> Unassigned,
     hero_call_amount |-> Unassigned,
     out |-> Printed("banner", RaisedPair)]

App3_not_started == [App3_main EXCEPT !.pc = "off", !.out = Printed("", RaisedPair)]

\* app3.py get_input, one turn of its loop on the line typed: the value it
\* returns, or ValueError when it prints "Invalid input" and prompts again.
App3_get_input(text, entry_type) ==
    IF entry_type = "int" THEN Py_int(text) ELSE Py_float(text)

\* app3.py main lines 39-80 and 85-86: the body of a hand once its four
\* inputs are read; an exception prints "Error: ..." and a new hand begins.
App3_hand_body(c) ==
    LET result == App3_hand(c.buy_in, c.starting_stack, c.villain_shove, c.current_pot,
                            c.villain_lvl.n, c.hero_call_amount)
    IN  [c EXCEPT !.pc = "villain_shove",
                  !.out = IF result = RaisedPair THEN Printed("Error", RaisedPair)
                          ELSE Printed("report", result)]

\* A variant of the tool that leaves the hand loop when a hand fails.
App3_answer_ExitOnError(c, text) ==
    LET value == App3_get_input(text, IF c.pc = "villain_lvl" THEN "int" ELSE "float")
        read == [c EXCEPT ![c.pc] = value, !.out = Printed("accepted", RaisedPair)]
    IN  IF value = ValueError THEN [c EXCEPT !.out = Printed("Invalid input", RaisedPair)]
        ELSE IF c.pc = "bb_value"
        THEN LET chip_euro_value == Div(Mul(read.buy_in, Rat(4, 10)), read.starting_stack)
             IN  IF Raised(chip_euro_value)
                 THEN [read EXCEPT !.pc = "crashed", !.out = Printed("Traceback", RaisedPair)]
                 ELSE [read EXCEPT !.pc = "villain_shove",
                                   !.chip_euro_value = chip_euro_value]
        ELSE IF c.pc = "hero_call_amount"
        THEN LET done == App3_hand_body(read)
             IN  IF done.out.kind = "Error" THEN [done EXCEPT !.pc = "exited"] ELSE done
        ELSE [read EXCEPT !.pc =
                  App3_prompts[1 + CHOOSE i \in 1..6 : App3_prompts[i] = c.pc]]

\* app3.py main, from one prompt to the next: the line typed is parsed by
\* get_input (lines 3-9); after the third setup value the chip value is
\* computed (line 21), after the fourth hand value the hand is processed.
App3_answer(c, text) ==
    LET value == App3_get_input(text, IF c.pc = "villain_lvl" THEN "int" ELSE "float")
        read == [c EXCEPT ![c.pc] = value, !.out = Printed("accepted", RaisedPair)]
    IN  IF value = ValueError THEN [c EXCEPT !.out = Printed("Invalid input", RaisedPair)]
        ELSE IF c.pc = "bb_value"
        THEN LET chip_euro_value == Div(Mul(read.buy_in, Rat(4, 10)), read.starting_stack)
             IN  IF Raised(chip_euro_value)
                 THEN [read EXCEPT !.pc = "crashed", !.out = Printed("Traceback", RaisedPair)]
                 ELSE [read EXCEPT !.pc = "villain_shove",
                                   !.chip_euro_value = chip_euro_value]
        ELSE IF c.pc = "hero_call_amount" THEN App3_hand_body(read)
        ELSE [read EXCEPT !.pc =
                  App3_prompts[1 + CHOOSE i \in 1..6 : App3_prompts[i] = c.pc]]

\* Ctrl-C at a prompt: KeyboardInterrupt is not a ValueError, so get_input
\* lets it through; the hand loop catches it and breaks (lines 82-84), the
\* setup does not.
App3_keyboard_interrupt(c) ==
    IF c.pc \in HandPrompts
    THEN [c EXCEPT !.pc = "exited", !.out = Printed("Exiting Tool...", RaisedPair)]
    ELSE [c EXCEPT !.pc = "crashed", !.out = Printed("Traceback", RaisedPair)]

\* End of input at a prompt: input() raises EOFError, which the hand loop
\* reports as any other exception (lines 85-86) and the setup does not
\* catch.
App3_end_of_input(c) ==
    IF c.pc \in HandPrompts
    THEN [c EXCEPT !.pc = "villain_shove", !.out = Printed("Error", RaisedPair)]
    ELSE [c EXCEPT !.pc = "crashed", !.out = Printed("Traceback", RaisedPair)]

(***************************************************************************)
(* Input domains                                                           *)
(***************************************************************************)
BuyIns == (0..MaxBuyIn) \cup {DefaultBuyIn}
Stacks == (0..MaxStack) \cup {DefaultStack}
BigBlinds == (0..MaxBB) \cup {DefaultBB}
Tokens == (0..MaxToken) \cup {DefaultToken}

\* Pot, call and bounty in BB: the spec's scenario 2 is potBefore = 10,
\* amountToCall = 5, bountyBB = 25 (10 and 5 are the widget defaults).
Pots == (-1..MaxPot) \cup {DefaultPot}
Calls == (-1..MaxCall) \cup {DefaultCall}
Bounties == (-1..MaxBounty) \cup {25}
NonNeg(S) == {x \in S : x >= 0}

\* Effective stacks and flop pots in BB, and the SPR values they give.
EffStacks == 0..MaxEff
FlopPots == 0..MaxFlopPot
GeoStacks == (-1..MaxEff) \cup {DefaultGPTEffStack, DefaultEffStack}
GeoPots == (-1..MaxFlopPot) \cup {DefaultFlopPot}
Streets == -1..3
SprValues == {Div(Int2Num(e), Int2Num(p)) : e \in EffStacks, p \in FlopPots \ {0}}

\* Token levels: the ten tiers of the table, the levels below them and
\* the 11+ band.
TokenLevels == -MaxLevelsOutside..(10 + MaxLevelsOutside)

\* Equity discounts in percentage points, in steps of a half.
Discounts == {Rat(k, 2) : k \in 0..(2 * MaxDiscount)}

BountyArgs(b, s, c, t) == [buyIn |-> b, startingStack |-> s, currentBigBlind |-> c, tokenValue |-> t]
EquityArgs(p, a, b) == [potBefore |-> p, amountToCall |-> a, bountyBB |-> b]

(***************************************************************************)
(* Actions: one call of one function (or one run of one script section) on *)
(* one input; Reset is the next call or rerun.                             *)
(***************************************************************************)
\* st.session_state of a new browser session: neither GPT.py's bounty_bb
\* nor deepseek.py's prev_values is set.
Absent == [k |-> "absent", n |-> 0, d |-> 1]
FreshSession == [bounty_bb |-> Absent, prev_values |-> Absent]

Init ==
    /\ fn = "none"
    /\ args = BountyArgs(0, 0, 0, 0)
    /\ ret = Unassigned
    /\ session = FreshSession
    /\ gui = [running |-> FALSE, app |-> App4_SpaceKOApp]
    /\ cli = App3_not_started

Idle == fn = "none"

Reset ==
    /\ ~Idle
    /\ UNCHANGED <<session, gui, cli>>
    /\ fn' = "none"
    /\ args' = BountyArgs(0, 0, 0, 0)
    /\ ret' = Unassigned

CallClaudeBounty ==
    /\ Idle
    /\ UNCHANGED <<session, gui, cli>>
    /\ \E b \in BuyIns, s \in Stacks, c \in BigBlinds, t \in Tokens :
        /\ fn' = "Claude.bounty_in_bb"
        /\ args' = BountyArgs(b, s, c, t)
        /\ ret' = Claude_bounty_in_bb(Int2Num(b), Int2Num(s), Int2Num(c), Int2Num(t))

\* GPT.py widgets: buy_in min_value 0.01, starting_stack min_value 1,
\* current_bb min_value 1, villain_token_avg min_value 0.0.
RunGPTBounty ==
    /\ Idle
    /\ UNCHANGED <<session, gui, cli>>
    /\ \E b \in BuyIns \ {0}, s \in Stacks \ {0}, c \in BigBlinds \ {0}, t \in Tokens :
        /\ fn' = "GPT.bounty_bb"
        /\ args' = BountyArgs(b, s, c, t)
        /\ ret' = GPT_bounty_bb(Int2Num(b), Int2Num(s), Int2Num(c), Int2Num(t))

CallDeepseekBounty ==
    /\ Idle
    /\ UNCHANGED <<session, gui, cli>>
    /\ \E b \in BuyIns, s \in Stacks, c \in BigBlinds, t \in Tokens :
        /\ fn' = "deepseek.calculate_bounty_in_bb"
        /\ args' = BountyArgs(b, s, c, t)
        /\ ret' = deepseek_calculate_bounty_in_bb(Int2Num(b), Int2Num(s), Int2Num(c), Int2Num(t))

CallApp4Bounty ==
    /\ Idle
    /\ UNCHANGED <<session, gui, cli>>
    /\ \E b \in BuyIns, s \in Stacks, c \in BigBlinds, t \in Tokens :
        /\ fn' = "app4.calculate_bounty_in_bb"
        /\ args' = BountyArgs(b, s, c, t)
        /\ ret' = App4_convert(Int2Num(b), Int2Num(s), Int2Num(t), Int2Num(c))

\* app.py widgets have no min_value: zero and negative entries are accepted.
RunAppBounty ==
    /\ Idle
    /\ UNCHANGED <<session, gui, cli>>
    /\ \E b \in BuyIns \cup {-1}, s \in Stacks \cup {-1}, c \in BigBlinds \cup {-1}, t \in Tokens :
        /\ fn' = "app.cash_bb"
        /\ args' = BountyArgs(b, s, c, t)
        /\ ret' = App_cash_bb(Int2Num(b), Int2Num(s), Int2Num(c), Int2Num(t))

\* gemini.py widgets: buy_in min_value 0.1, start_stack and curr_bb_chips
\* min_value 1, villain_bounty_eur min_value 0.0.
RunGeminiBounty ==
    /\ Idle
    /\ UNCHANGED <<session, gui, cli>>
    /\ \E b \in BuyIns \ {0}, s \in Stacks \ {0}, c \in BigBlinds \ {0}, t \in Tokens :
        /\ fn' = "gemini.bounty_in_bb"
        /\ args' = BountyArgs(b, s, c, t)
        /\ ret' = gemini_bounty_in_bb(Int2Num(b), Int2Num(s), Int2Num(c), Int2Num(t))

\* app2.py widgets have no min_value: zero and negative entries are accepted.
RunApp2Bounty ==
    /\ Idle
    /\ UNCHANGED <<session, gui, cli>>
    /\ \E b \in BuyIns \cup {-1}, s \in Stacks \cup {-1}, c \in BigBlinds \cup {-1}, t \in Tokens :
        /\ fn' = "app2.cash_bb"
        /\ args' = BountyArgs(b, s, c, t)
        /\ ret' = App2_cash_bb(Int2Num(b), Int2Num(s), Int2Num(c), Int2Num(t))

CallClaudePotOdds ==
    /\ Idle
    /\ UNCHANGED <<session, gui, cli>>
    /\ \E p \in Pots, a \in Calls, b \in Bounties :
        /\ fn' = "Claude.calculate_pot_odds"
        /\ args' = EquityArgs(p, a, b)
        /\ ret' = Claude_calculate_pot_odds(Int2Num(p), Int2Num(a), Int2Num(b))

CallDeepseekEquity ==
    /\ Idle
    /\ UNCHANGED <<session, gui, cli>>
    /\ \E p \in Pots, a \in Calls, b \in Bounties :
        /\ fn' = "deepseek.calculate_required_equity"
        /\ args' = EquityArgs(p, a, b)
        /\ ret' = deepseek_calculate_required_equity(Int2Num(p), Int2Num(a), Int2Num(b))

\* app4.py: the calculator is constructed by initialize_calculator, which
\* admits only buyin > 0 and starting_stack > 0; bountyBB is villain_bounty.
CallApp4PotOdds ==
    /\ Idle
    /\ UNCHANGED <<session, gui, cli>>
    /\ \E bi \in BuyIns \ {0}, s \in Stacks \ {0}, p \in Pots, a \in Calls, b \in Bounties :
        /\ fn' = "app4.calculate_pot_odds"
        /\ args' = [potBefore |-> p, amountToCall |-> a, bountyBB |-> b,
                    buyIn |-> bi, startingStack |-> s]
        /\ ret' = App4_calculate_pot_odds(App4_chip_value_per_euro(Int2Num(bi), Int2Num(s)),
                                          Int2Num(p), Int2Num(a), Int2Num(b))

\* GPT.py widgets: pot_before min_value 0.0, to_call min_value 0.1; the
\* bounty is the one section 1 stored in st.session_state.bounty_bb.
RunGPTAdvisor ==
    /\ Idle
    /\ UNCHANGED <<session, gui, cli>>
    /\ \E bi \in {1, DefaultBuyIn}, s \in {1, DefaultStack}, c \in {1, DefaultBB}, t \in Tokens,
          p \in NonNeg(Pots), a \in NonNeg(Calls) \ {0} :
        LET bounty_bb == GPT_bounty_bb(Int2Num(bi), Int2Num(s), Int2Num(c), Int2Num(t))
        IN  /\ fn' = "GPT.equity"
            /\ args' = [potBefore |-> p, amountToCall |-> a, bountyBB |-> bounty_bb,
                        buyIn |-> bi, startingStack |-> s, currentBigBlind |-> c, tokenValue |-> t]
            /\ ret' = GPT_equity(bounty_bb, Int2Num(p), Int2Num(a))

\* app3.py get_input accepts every float (negative and zero included) and
\* every int for the token level; setup needs starting_stack # 0.
RunApp3Hand ==
    /\ Idle
    /\ UNCHANGED <<session, gui, cli>>
    /\ \E bi \in {0, 1, DefaultBuyIn}, s \in {1, DefaultStack}, v \in 0..MaxCall, p \in 0..MaxPot,
          lvl \in {0, 1, 10, 11}, a \in 0..MaxCall :
        /\ fn' = "app3.hand"
        /\ args' = [potBefore |-> p + v, amountToCall |-> a, buyIn |-> bi, startingStack |-> s,
                    villainShove |-> v, currentPot |-> p, villainLvl |-> lvl]
        /\ ret' = App3_hand(Int2Num(bi), Int2Num(s), Int2Num(v), Int2Num(p), lvl, Int2Num(a))

SprArgs(e, p) == [effectiveStack |-> e, potOnFlop |-> p]

CallClaudeSpr ==
    /\ Idle
    /\ UNCHANGED <<session, gui, cli>>
    /\ \E e \in EffStacks, p \in FlopPots :
        /\ fn' = "Claude.calculate_spr"
        /\ args' = SprArgs(e, p)
        /\ ret' = Claude_calculate_spr(Int2Num(e), Int2Num(p))

CallApp4Spr ==
    /\ Idle
    /\ UNCHANGED <<session, gui, cli>>
    /\ \E e \in EffStacks, p \in FlopPots :
        /\ fn' = "app4.calculate_spr"
        /\ args' = SprArgs(e, p)
        /\ ret' = App4_calculate_spr(Int2Num(e), Int2Num(p))

\* app4.py calculate: the stack entries may be empty (read as 0) or any
\* number; pot_size < 0 is rejected by the validation at line 297.
RunApp4SprSection ==
    /\ Idle
    /\ UNCHANGED <<session, gui, cli>>
    /\ \E o \in -1..3, v \in -1..3, p \in FlopPots :
        /\ fn' = "app4.calculate.spr"
        /\ args' = [ourStack |-> o, villainStack |-> v, potOnFlop |-> p]
        /\ ret' = App4_calculate_spr_section(Int2Num(o), Int2Num(v), Int2Num(p))

CallClaudeBand ==
    /\ Idle
    /\ UNCHANGED <<session, gui, cli>>
    /\ \E x \in SprValues :
        /\ fn' = "Claude.get_spr_interpretation"
        /\ args' = [spr |-> x]
        /\ ret' = [band |-> Claude_get_spr_interpretation(x)]

CallApp4Band ==
    /\ Idle
    /\ UNCHANGED <<session, gui, cli>>
    /\ \E x \in SprValues :
        /\ fn' = "app4.get_spr_risk_level"
        /\ args' = [spr |-> x]
        /\ ret' = [band |-> App4_get_spr_risk_level(x)]

\* deepseek.py: effective_stack and pot_on_flop widgets have min_value 0.0.
RunDeepseekSprCard ==
    /\ Idle
    /\ UNCHANGED <<session, gui, cli>>
    /\ \E e \in EffStacks, p \in FlopPots :
        LET spr_value == deepseek_calculate_spr(Int2Num(e), Int2Num(p))
        IN  /\ fn' = "deepseek.spr_band"
            /\ args' = [spr |-> spr_value, effectiveStack |-> e, potOnFlop |-> p]
            /\ ret' = [band |-> deepseek_spr_band(spr_value)]

GeoArgs(e, p) == [effectiveStack |-> e, potOnFlop |-> p]

CallClaudeGeo ==
    /\ Idle
    /\ UNCHANGED <<session, gui, cli>>
    /\ \E e \in GeoStacks, p \in GeoPots :
        /\ fn' = "Claude.geometric_bet_sizing"
        /\ args' = GeoArgs(e, p)
        /\ ret' = Claude_geometric_bet_sizing(Int2Num(p), Int2Num(e))

\* deepseek.py lines 255-256: geo_turn (streets=2) and geo_river (streets=3).
CallDeepseekGeo ==
    /\ Idle
    /\ UNCHANGED <<session, gui, cli>>
    /\ \E e \in GeoStacks, p \in GeoPots :
        /\ fn' = "deepseek.calculate_geometric_sizing"
        /\ args' = GeoArgs(e, p)
        /\ ret' = Sizing(deepseek_calculate_geometric_sizing(Int2Num(e), Int2Num(p), 2),
                         deepseek_calculate_geometric_sizing(Int2Num(e), Int2Num(p), 3))

\* gemini.py lines 70-71: geo_2_streets and geo_3_streets.
CallGeminiGeo ==
    /\ Idle
    /\ UNCHANGED <<session, gui, cli>>
    /\ \E e \in GeoStacks, p \in GeoPots :
        /\ fn' = "gemini.solve_geometric"
        /\ args' = GeoArgs(e, p)
        /\ ret' = Sizing(gemini_solve_geometric(2, Int2Num(e), Int2Num(p)),
                         gemini_solve_geometric(3, Int2Num(e), Int2Num(p)))

\* GPT.py widgets: eff_stack min_value 0.0, flop_pot min_value 0.1; lines
\* 125-126 show geo_2 * 100 and geo_3 * 100.
RunGPTGeo ==
    /\ Idle
    /\ UNCHANGED <<session, gui, cli>>
    /\ \E e \in GeoStacks \ {-1}, p \in GeoPots \ {-1, 0} :
        LET g == GPT_geo(Int2Num(e), Int2Num(p))
        IN  /\ fn' = "GPT.geo"
            /\ args' = GeoArgs(e, p)
            /\ ret' = Sizing(RealMul(g.geo_2, Hundred), RealMul(g.geo_3, Hundred))

CallApp4Geo ==
    /\ Idle
    /\ UNCHANGED <<session, gui, cli>>
    /\ \E e \in GeoStacks, p \in GeoPots, n \in Streets :
        /\ fn' = "app4.calculate_geometric_sizing"
        /\ args' = [effectiveStack |-> e, potOnFlop |-> p, streets |-> n]
        /\ ret' = App4_calculate_geometric_sizing(Int2Num(e), Int2Num(p), n)

\* app3.py lines 36-44: the token level read by get_input(..., int) (any
\* integer) and the avg_bounty_total looked up for it.
RunApp3Lookup ==
    /\ Idle
    /\ UNCHANGED <<session, gui, cli>>
    /\ \E bi \in BuyIns, lvl \in TokenLevels :
        /\ fn' = "app3.avg_bounty_total"
        /\ args' = [buyIn |-> bi, villainLvl |-> lvl]
        /\ ret' = App3_avg_bounty_total(Int2Num(bi), lvl)

\* gemini.py solve_geometric called with any street count.
CallGeminiSolve ==
    /\ Idle
    /\ UNCHANGED <<session, gui, cli>>
    /\ \E e \in GeoStacks, p \in GeoPots, n \in Streets :
        /\ fn' = "gemini.solve_geometric(streets)"
        /\ args' = [effectiveStack |-> e, potOnFlop |-> p, streets |-> n]
        /\ ret' = gemini_solve_geometric(n, Int2Num(e), Int2Num(p))

\* deepseek.py calculate_geometric_sizing called with any street count.
CallDeepseekSizing ==
    /\ Idle
    /\ UNCHANGED <<session, gui, cli>>
    /\ \E e \in GeoStacks, p \in GeoPots, n \in Streets :
        /\ fn' = "deepseek.calculate_geometric_sizing(streets)"
        /\ args' = [effectiveStack |-> e, potOnFlop |-> p, streets |-> n]
        /\ ret' = deepseek_calculate_geometric_sizing(Int2Num(e), Int2Num(p), n)

(***************************************************************************)
(* Script reruns: Streamlit runs the whole script again on every input     *)
(* change and keeps st.session_state between the runs.                     *)
(***************************************************************************)
RunGPTReductionBand ==
    /\ Idle
    /\ UNCHANGED <<session, gui, cli>>
    /\ \E d \in Discounts :
        /\ fn' = "GPT.reduction_band"
        /\ args' = [discount |-> d]
        /\ ret' = [band |-> GPT_reduction_band(d)]

RunApp2Verdict ==
    /\ Idle
    /\ UNCHANGED <<session, gui, cli>>
    /\ \E d \in Discounts :
        /\ fn' = "app2.verdict"
        /\ args' = [discount |-> d]
        /\ ret' = [band |-> App2_verdict(d)]

CallApp4EquityColor ==
    /\ Idle
    /\ UNCHANGED <<session, gui, cli>>
    /\ \E d \in Discounts :
        /\ fn' = "app4.equity_color"
        /\ args' = [discount |-> d]
        /\ ret' = [band |-> App4_equity_color(d)]

RunInputs(bi, s, c, t, p, a, e, f) ==
    [buyIn |-> bi, startingStack |-> s, currentBigBlind |-> c, tokenValue |-> t,
     potBefore |-> p, amountToCall |-> a, effectiveStack |-> e, potOnFlop |-> f]

\* A variant of GPT.py that stores the bounty only when the session holds
\* none yet (the store of line 47 moved into the initialisation).
GPT_script_StoredOnce(state, a) ==
    LET bounty_bb == GPT_bounty_bb(Int2Num(a.buyIn), Int2Num(a.startingStack),
                                   Int2Num(a.currentBigBlind), Int2Num(a.tokenValue))
        stored == IF state.bounty_bb = Absent
                  THEN [state EXCEPT !.bounty_bb = bounty_bb]
                  ELSE state
    IN  [session |-> stored,
         out |-> [bounty_bb |-> bounty_bb,
                  equity |-> GPT_equity(stored.bounty_bb, Int2Num(a.potBefore),
                                        Int2Num(a.amountToCall)),
                  geo |-> GPT_geo(Int2Num(a.effectiveStack), Int2Num(a.potOnFlop))]]

\* GPT.py, one run of the script: lines 26-27 initialise
\* st.session_state.bounty_bb, lines 42-47 compute and store the bounty,
\* lines 75-89 read it back for the advisor, lines 112-121 size the bets.
GPT_script(state, a) ==
    LET initialised == IF state.bounty_bb = Absent
                       THEN [state EXCEPT !.bounty_bb = Zero]
                       ELSE state
        bounty_bb == GPT_bounty_bb(Int2Num(a.buyIn), Int2Num(a.startingStack),
                                   Int2Num(a.currentBigBlind), Int2Num(a.tokenValue))
        stored == [initialised EXCEPT !.bounty_bb = bounty_bb]
    IN  [session |-> stored,
         out |-> [bounty_bb |-> bounty_bb,
                  equity |-> GPT_equity(stored.bounty_bb, Int2Num(a.potBefore),
                                        Int2Num(a.amountToCall)),
                  geo |-> GPT_geo(Int2Num(a.effectiveStack), Int2Num(a.potOnFlop))]]

\* deepseek.py, one run of the script: lines 75-76 initialise
\* st.session_state.prev_values, lines 252-256 compute the outputs, lines
\* 410-415 store the current inputs; nothing reads prev_values.
deepseek_script(state, a) ==
    LET initialised == IF state.prev_values = Absent
                       THEN [state EXCEPT !.prev_values = [k |-> "dict"]]
                       ELSE state
        bounty_bb == deepseek_calculate_bounty_in_bb(
                         Int2Num(a.buyIn), Int2Num(a.startingStack),
                         Int2Num(a.currentBigBlind), Int2Num(a.tokenValue))
        stored == [initialised EXCEPT !.prev_values =
                      [k |-> "dict", buy_in |-> a.buyIn, starting_stack |-> a.startingStack,
                       current_bb |-> a.currentBigBlind, token_avg_eur |-> a.tokenValue]]
    IN  [session |-> stored,
         out |-> [bounty_bb |-> bounty_bb,
                  equity |-> deepseek_calculate_required_equity(
                                 Int2Num(a.potBefore), Int2Num(a.amountToCall), bounty_bb),
                  spr |-> deepseek_calculate_spr(Int2Num(a.effectiveStack),
                                                 Int2Num(a.potOnFlop)),
                  geo |-> Sizing(deepseek_calculate_geometric_sizing(
                                     Int2Num(a.effectiveStack), Int2Num(a.potOnFlop), 2),
                                 deepseek_calculate_geometric_sizing(
                                     Int2Num(a.effectiveStack), Int2Num(a.potOnFlop), 3))]]

\* The inputs of a run: small and default values the widgets accept
\* (buy-in and stack positive, token value 0 or more; GPT.py to_call and
\* flop_pot min_value 0.1, deepseek.py amount_to_call and pot_on_flop
\* min_value 0.0).
RunBuyIns == {1, DefaultBuyIn}
RunStacks == {1, DefaultStack}
RunTokens == {0, DefaultToken}

RerunGPT ==
    \E bi \in RunBuyIns, s \in RunStacks, t \in RunTokens, a \in {1, DefaultCall} :
        LET in == RunInputs(bi, s, DefaultBB, t, DefaultPot, a, DefaultGPTEffStack, 2)
            run == GPT_script(session, in)
        IN  /\ fn' = "GPT.py"
            /\ args' = in
            /\ ret' = run.out
            /\ session' = run.session
            /\ UNCHANGED <<gui, cli>>

RerunDeepseek ==
    \E bi \in RunBuyIns, s \in RunStacks, t \in RunTokens,
       a \in {0, DefaultCall}, e \in {4, MaxEff}, f \in {0, 1} :
        LET in == RunInputs(bi, s, DefaultBB, t, DefaultPot, a, e, f)
            run == deepseek_script(session, in)
        IN  /\ fn' = "deepseek.py"
            /\ args' = in
            /\ ret' = run.out
            /\ session' = run.session
            /\ UNCHANGED <<gui, cli>>

RerunNext ==
    \/ RerunGPT
    \/ RerunDeepseek

RerunSpec == Init /\ [][RerunNext]_vars

(***************************************************************************)
(* The two interactive tools.  A session runs one of them: app4.py's       *)
(* window with its entries and buttons, or app3.py's prompts.              *)
(***************************************************************************)
\* What is typed into the entries of app4.py.
SettingTexts == ("buyin_var" :> {"10", "nan", "0"}) @@ ("stack_var" :> {"20000"})
HandTexts ==
    ("our_stack_var" :> {"", "100"}) @@ ("villain_stack_var" :> {"", "50"})
    @@ ("villain_bounty_var" :> {"", "10"}) @@ ("current_bb_var" :> {"", "0", "nan", "200"})
    @@ ("pot_var" :> {"", "10"}) @@ ("bet_var" :> {"", "5"})
StreetTexts == {"Flop", "River"}

NoTool == ~gui.running /\ cli.pc = "off"

Did(outcome) ==
    [dialogs |-> outcome.dialogs, calculations |-> outcome.calculations,
     rewrites |-> outcome.rewrites]

Event(var, text) == [var |-> var, text |-> text]

StartApp4 ==
    /\ NoTool
    /\ gui' = [running |-> TRUE, app |-> App4_SpaceKOApp]
    /\ fn' = "app4.SpaceKOApp"
    /\ args' = Event("", "")
    /\ ret' = Did(Outcome(App4_SpaceKOApp, <<>>, 0, 0))
    /\ UNCHANGED <<session, cli>>

\* The buy-in and starting-stack entries have no trace.
EditSetting ==
    /\ gui.running
    /\ \E var \in DOMAIN SettingTexts : \E text \in SettingTexts[var] :
        /\ gui' = [gui EXCEPT !.app[var] = text]
        /\ fn' = "app4.settings_entry"
        /\ args' = Event("", "")
        /\ ret' = Did(Outcome(gui.app, <<>>, 0, 0))
    /\ UNCHANGED <<session, cli>>

\* The street combobox is read-only and has no trace.
SelectStreet ==
    /\ gui.running
    /\ \E street \in StreetTexts :
        /\ gui' = [gui EXCEPT !.app.street_var = street]
        /\ fn' = "app4.street_combo"
        /\ args' = Event("", "")
        /\ ret' = Did(Outcome(gui.app, <<>>, 0, 0))
    /\ UNCHANGED <<session, cli>>

EditHandField ==
    /\ gui.running
    /\ \E var \in HandVars : \E text \in HandTexts[var] :
        \E outcome \in {App4_set(Outcome(gui.app, <<>>, 0, 0), var, text)} :
            /\ gui' = [gui EXCEPT !.app = outcome.app]
            /\ fn' = "app4.hand_entry"
            /\ args' = Event("", "")
            /\ ret' = Did(outcome)
    /\ UNCHANGED <<session, cli>>

ClickInitialize ==
    /\ gui.running
    /\ \E outcome \in {App4_initialize_calculator(gui.app)} :
           /\ gui' = [gui EXCEPT !.app = outcome.app]
           /\ fn' = "app4.initialize_calculator"
           /\ args' = Event("", "")
           /\ ret' = Did(outcome)
    /\ UNCHANGED <<session, cli>>

ClickCalculate ==
    /\ gui.running
    /\ \E outcome \in {App4_calculate(gui.app)} :
           /\ gui' = [gui EXCEPT !.app = outcome.app]
           /\ fn' = "app4.calculate"
           /\ args' = Event("", "")
           /\ ret' = Did(outcome)
    /\ UNCHANGED <<session, cli>>

ClickClear ==
    /\ gui.running
    /\ \E outcome \in {App4_clear_hand(gui.app)} :
           /\ gui' = [gui EXCEPT !.app = outcome.app]
           /\ fn' = "app4.clear_hand"
           /\ args' = Event("", "")
           /\ ret' = Did(outcome)
    /\ UNCHANGED <<session, cli>>

\* What is typed at the prompts of app3.py.
PromptTexts == {"abc", "2.5", "0", "10"}

StartApp3 ==
    /\ NoTool
    /\ cli' = App3_main
    /\ fn' = "app3.main"
    /\ args' = Event("", "")
    /\ ret' = cli'.out
    /\ UNCHANGED <<session, gui>>

AtPrompt == cli.pc \in SetupPrompts \cup HandPrompts

App3TypeLine ==
    /\ AtPrompt
    /\ \E text \in PromptTexts :
        /\ cli' = App3_answer(cli, text)
        /\ fn' = "app3.get_input"
        /\ args' = Event(cli.pc, text)
        /\ ret' = cli'.out
    /\ UNCHANGED <<session, gui>>

App3CtrlC ==
    /\ AtPrompt
    /\ cli' = App3_keyboard_interrupt(cli)
    /\ fn' = "app3.KeyboardInterrupt"
    /\ args' = Event(cli.pc, "")
    /\ ret' = cli'.out
    /\ UNCHANGED <<session, gui>>

App3EndOfInput ==
    /\ AtPrompt
    /\ cli' = App3_end_of_input(cli)
    /\ fn' = "app3.EOFError"
    /\ args' = Event(cli.pc, "")
    /\ ret' = cli'.out
    /\ UNCHANGED <<session, gui>>

ToolNext ==
    \/ StartApp4
    \/ EditSetting
    \/ SelectStreet
    \/ EditHandField
    \/ ClickInitialize
    \/ ClickCalculate
    \/ ClickClear
    \/ StartApp3
    \/ App3TypeLine
    \/ App3CtrlC
    \/ App3EndOfInput

ToolSpec == Init /\ [][ToolNext]_vars

Next ==
    \/ Reset
    \/ CallClaudeBounty
    \/ RunGPTBounty
    \/ CallDeepseekBounty
    \/ CallApp4Bounty
    \/ RunAppBounty
    \/ CallClaudePotOdds
    \/ CallDeepseekEquity
    \/ CallApp4PotOdds
    \/ RunGPTAdvisor
    \/ RunApp3Hand
    \/ CallClaudeSpr
    \/ CallApp4Spr
    \/ RunApp4SprSection
    \/ CallClaudeBand
    \/ CallApp4Band
    \/ RunDeepseekSprCard
    \/ CallClaudeGeo
    \/ CallDeepseekGeo
    \/ CallGeminiGeo
    \/ RunGPTGeo
    \/ CallApp4Geo
    \/ RunApp3Lookup
    \/ CallGeminiSolve
    \/ CallDeepseekSizing
    \/ RunGPTReductionBand
    \/ RunApp2Verdict
    \/ CallApp4EquityColor
    \/ RunGeminiBounty
    \/ RunApp2Bounty

Spec == Init /\ [][Next]_vars

(***************************************************************************)
(* The contracts of spec.md sections 4.1 and 4.2, written from the spec's  *)
(* formulas in exact arithmetic                                            *)
(***************************************************************************)
\* (tokenValue * cashShare) / (currentBigBlind * (basis * buyIn) / startingStack)
ConvertBounty(a, cashShare, basis) ==
    Div(Mul(Int2Num(a.tokenValue), cashShare),
        Mul(Int2Num(a.currentBigBlind),
            Div(Mul(basis, Int2Num(a.buyIn)), Int2Num(a.startingStack))))

ValidConversion(a) ==
    a.buyIn > 0 /\ a.startingStack > 0 /\ a.currentBigBlind > 0 /\ a.tokenValue >= 0

Scenario1 == BountyArgs(DefaultBuyIn, DefaultStack, DefaultBB, DefaultToken)

\* C1 (as stated): for buyIn > 0, startingStack > 0, currentBigBlind > 0 and
\* tokenValue >= 0, Claude.py bounty_in_bb, GPT.py's inline conversion and
\* app4.py calculate_bounty_in_bb all return
\* (tokenValue * 0.5) / (currentBigBlind * buyIn / startingStack), which is 25
\* on buyIn=10, startingStack=20000, currentBigBlind=200, tokenValue=5.
C1_AllReturnHalfShare ==
    (fn \in {"Claude.bounty_in_bb", "GPT.bounty_bb", "app4.calculate_bounty_in_bb"}
        /\ ValidConversion(args))
    => /\ ret = ConvertBounty(args, Half, One)
       /\ (args = Scenario1 => ret = Int2Num(25))

\* C1 (amended): on the same inputs GPT.py returns the stated value (25 on
\* the scenario); Claude.py bounty_in_bb applies no cash share and returns
\* tokenValue / (currentBigBlind * buyIn / startingStack) (50); app4.py
\* bases the chip value on 40% of the buy-in and returns
\* (tokenValue * 0.5) / (currentBigBlind * 0.4 * buyIn / startingStack) (62.5).
C1_PerImplementation ==
    /\ (fn = "GPT.bounty_bb" /\ ValidConversion(args)) =>
          /\ ret = ConvertBounty(args, Half, One)
          /\ (args = Scenario1 => ret = Int2Num(25))
    /\ (fn = "Claude.bounty_in_bb" /\ ValidConversion(args)) =>
          /\ ret = ConvertBounty(args, One, One)
          /\ (args = Scenario1 => ret = Int2Num(50))
    /\ (fn = "app4.calculate_bounty_in_bb" /\ ValidConversion(args)) =>
          /\ ret = ConvertBounty(args, Half, Rat(4, 10))
          /\ (args = Scenario1 => ret = Rat(125, 2))

C1_Witness ==
    /\ fn = "GPT.bounty_bb"
    /\ args = Scenario1
    /\ ret = Int2Num(25)

\* C2 (as stated): the conversion never raises a division error; whenever
\* currentBigBlind == 0, buyIn == 0 or startingStack == 0 it completes
\* (constructing the calculator included) and yields bountyBB = 0.
C2_DegenerateYieldsZero ==
    (fn \in {"app.cash_bb", "app4.calculate_bounty_in_bb", "deepseek.calculate_bounty_in_bb"}
        /\ (args.currentBigBlind = 0 \/ args.buyIn = 0 \/ args.startingStack = 0))
    => ret = Zero

ValidEquity(a) == a.potBefore >= 0 /\ a.amountToCall >= 0 /\ a.bountyBB >= 0

Scenario2 == EquityArgs(DefaultPot, DefaultCall, 25)

\* The required-equity function that fn names, applied to the call a.
EquityOf(f, a) ==
    CASE f = "Claude.calculate_pot_odds" ->
            Claude_calculate_pot_odds(Int2Num(a.potBefore), Int2Num(a.amountToCall),
                                      Int2Num(a.bountyBB))
      [] f = "deepseek.calculate_required_equity" ->
            deepseek_calculate_required_equity(Int2Num(a.potBefore), Int2Num(a.amountToCall),
                                               Int2Num(a.bountyBB))
      [] f = "app4.calculate_pot_odds" ->
            App4_calculate_pot_odds(
                App4_chip_value_per_euro(Int2Num(a.buyIn), Int2Num(a.startingStack)),
                Int2Num(a.potBefore), Int2Num(a.amountToCall), Int2Num(a.bountyBB))

EquityFunctions ==
    {"Claude.calculate_pot_odds", "deepseek.calculate_required_equity", "app4.calculate_pot_odds"}

\* C3: for potBefore >= 0, amountToCall >= 0 and bountyBB >= 0 the returned
\* pair satisfies 0 <= bountyAdjustedPct <= standardPct, and a larger bounty
\* never gives a larger bountyAdjustedPct.
C3_AdjustedBoundedAndMonotone ==
    (fn \in EquityFunctions /\ ValidEquity(args)) =>
        /\ Le(Zero, ret.adj)
        /\ Le(ret.adj, ret.std)
        /\ \A b2 \in NonNeg(Bounties) :
              args.bountyBB <= b2 =>
                  Le(EquityOf(fn, [args EXCEPT !.bountyBB = b2]).adj, ret.adj)

C3_Witness ==
    /\ fn = "deepseek.calculate_required_equity"
    /\ args = Scenario2
    /\ Lt(Zero, ret.adj)
    /\ Lt(ret.adj, ret.std)
    /\ Lt(ret.adj, EquityOf(fn, [args EXCEPT !.bountyBB = 1]).adj)

\* C4 (as stated): the pot-odds computation never raises on a zero
\* denominator; when potBefore + amountToCall == 0 both percentages are
\* returned as 0 and no division error is raised or reported.
C4_ZeroPotYieldsZero ==
    (fn \in {"Claude.calculate_pot_odds", "app3.hand", "app4.calculate_pot_odds"}
        /\ args.potBefore >= 0 /\ args.amountToCall >= 0
        /\ (fn # "app3.hand" => args.bountyBB >= 0)
        /\ args.potBefore + args.amountToCall = 0)
    => ret = Pair(Zero, Zero)

\* 100 * amountToCall / (potBefore + extra + amountToCall + bounty)
SpecPct(call, pot, bounty) == Pct(call, Add(Add(pot, call), bounty))

\* C5 (as stated): for potBefore + amountToCall > 0 and bountyBB >= 0,
\* Claude.py calculate_pot_odds and GPT.py's call advisor return
\* standardPct = 100 * amountToCall / (potBefore + amountToCall) and
\* bountyAdjustedPct = 100 * amountToCall / (potBefore + amountToCall + bountyBB);
\* potBefore=10, amountToCall=5, bountyBB=25 yields 100/3 and 12.5.
C5_AllUsePotPlusCall ==
    /\ (fn = "Claude.calculate_pot_odds" /\ ValidEquity(args)
            /\ args.potBefore + args.amountToCall > 0)
       => /\ ret.std = SpecPct(Int2Num(args.amountToCall), Int2Num(args.potBefore), Zero)
          /\ ret.adj = SpecPct(Int2Num(args.amountToCall), Int2Num(args.potBefore),
                               Int2Num(args.bountyBB))
          /\ (args = Scenario2 => ret = Pair(Rat(100, 3), Rat(25, 2)))
    /\ (fn = "GPT.equity" /\ Pos(args.bountyBB))
       => /\ ret.std = SpecPct(Int2Num(args.amountToCall), Int2Num(args.potBefore), Zero)
          /\ ret.adj = SpecPct(Int2Num(args.amountToCall), Int2Num(args.potBefore),
                               args.bountyBB)

\* C5 (amended): Claude.py calculate_pot_odds returns the stated pair (100/3
\* and 12.5 on the scenario); GPT.py's call advisor, which runs only for
\* bountyBB > 0, takes potBefore as the pot before the shove and returns
\* 100 * amountToCall / (potBefore + 2*amountToCall) and
\* 100 * amountToCall / (potBefore + 2*amountToCall + bountyBB), which is 25
\* and 100/9 on the scenario.
C5_PerImplementation ==
    /\ (fn = "Claude.calculate_pot_odds" /\ ValidEquity(args)
            /\ args.potBefore + args.amountToCall > 0)
       => /\ ret.std = SpecPct(Int2Num(args.amountToCall), Int2Num(args.potBefore), Zero)
          /\ ret.adj = SpecPct(Int2Num(args.amountToCall), Int2Num(args.potBefore),
                               Int2Num(args.bountyBB))
          /\ (args = Scenario2 => ret = Pair(Rat(100, 3), Rat(25, 2)))
    /\ (fn = "GPT.equity" /\ Pos(args.bountyBB))
       => /\ ret.std = SpecPct(Int2Num(args.amountToCall),
                               Int2Num(args.potBefore + args.amountToCall), Zero)
          /\ ret.adj = SpecPct(Int2Num(args.amountToCall),
                               Int2Num(args.potBefore + args.amountToCall), args.bountyBB)
          /\ ((args.potBefore = DefaultPot /\ args.amountToCall = DefaultCall
                  /\ args.bountyBB = Int2Num(25))
              => ret = Pair(Int2Num(25), Rat(100, 9)))

C5_Witness ==
    /\ fn = "GPT.equity"
    /\ args.potBefore = DefaultPot
    /\ args.amountToCall = DefaultCall
    /\ args.bountyBB = Int2Num(25)
    /\ ret = Pair(Int2Num(25), Rat(100, 9))

\* C6 (as stated): for potBefore >= 0, amountToCall >= 0 and bountyBB >= 0,
\* bountyAdjustedPct == standardPct if and only if bountyBB == 0.
C6_EqualIffNoBounty ==
    (fn \in {"Claude.calculate_pot_odds", "deepseek.calculate_required_equity"}
        /\ ValidEquity(args))
    => (ret.adj = ret.std <=> args.bountyBB = 0)

\* C6 (amended): on the same inputs bountyAdjustedPct == standardPct if and
\* only if bountyBB == 0 or amountToCall == 0 (with nothing to call both
\* percentages are 0 whatever the bounty).
C6_EqualIffNoBountyOrNoCall ==
    (fn \in {"Claude.calculate_pot_odds", "deepseek.calculate_required_equity"}
        /\ ValidEquity(args))
    => (ret.adj = ret.std <=> (args.bountyBB = 0 \/ args.amountToCall = 0))

C6_Witness ==
    /\ fn = "Claude.calculate_pot_odds"
    /\ args.potBefore > 0
    /\ args.amountToCall = 0
    /\ args.bountyBB > 0
    /\ ret.adj = ret.std

\* C7 (as stated): for effectiveStack >= 0 the SPR computation with
\* potOnFlop == 0 returns 0 and raises nothing; no infinite SPR value is
\* returned, classified into a band or displayed.
C7_ZeroPotGivesZeroSpr ==
    /\ (fn \in {"Claude.calculate_spr", "app4.calculate_spr"}
            /\ args.effectiveStack >= 0 /\ args.potOnFlop = 0)
       => ret = Zero
    /\ fn \in {"Claude.calculate_spr", "app4.calculate_spr"} => ret # PyInf
    /\ fn = "app4.calculate.spr" =>
          /\ ret.spr # PyInf
          /\ (args.potOnFlop = 0 => ret.spr = Zero /\ ~ret.displayed)

Bands == <<"Very Low", "Low", "Medium", "High", "Very High">>
BandNames == {Bands[i] : i \in 1..Len(Bands)}
BandRank(b) == CHOOSE i \in 1..Len(Bands) : Bands[i] = b

\* The band classification that fn names, applied to the SPR value x.
BandOf(f, x) ==
    CASE f = "Claude.get_spr_interpretation" -> Claude_get_spr_interpretation(x)
      [] f = "app4.get_spr_risk_level" -> App4_get_spr_risk_level(x)
      [] f = "deepseek.spr_band" -> deepseek_spr_band(x)

BandFunctions ==
    {"Claude.get_spr_interpretation", "app4.get_spr_risk_level", "deepseek.spr_band"}

\* s1 < s2 never puts s1 in a later band than s2.
BandsMonotoneFrom(f, s1, b1) ==
    \A s2 \in SprValues :
        (Lt(s1, s2) /\ b1 \in BandNames /\ BandOf(f, s2) \in BandNames)
            => BandRank(b1) <= BandRank(BandOf(f, s2))

\* C8 (as stated): the band classification is total and monotonic: every
\* SPR value >= 0 maps to exactly one band, and for s1 < s2 the band of s1
\* is never later in very-low < low < medium < high < very-high than that
\* of s2.
C8_TotalAndMonotone ==
    (fn \in BandFunctions /\ Le(Zero, args.spr)) =>
        /\ ret.band \in BandNames
        /\ BandsMonotoneFrom(fn, args.spr, ret.band)

\* C8 (amended): every SPR value > 0 maps to exactly one band in the three
\* implementations and the classification is monotonic; SPR == 0 maps to
\* the very-low band in Claude.py and app4.py, and to no band in
\* deepseek.py, whose SPR card shows a placeholder instead.
C8_TotalAboveZeroAndMonotone ==
    (fn \in BandFunctions /\ Le(Zero, args.spr)) =>
        /\ Pos(args.spr) => ret.band \in BandNames
        /\ IsZero(args.spr) =>
              ret.band = (IF fn = "deepseek.spr_band" THEN NoBand ELSE "Very Low")
        /\ BandsMonotoneFrom(fn, args.spr, ret.band)

C8_Witness ==
    /\ fn = "app4.get_spr_risk_level"
    /\ args.spr = Rat(5, 2)
    /\ ret.band = "Low"
    /\ BandOf(fn, Int2Num(3)) = "Medium"
    /\ BandOf(fn, Int2Num(13)) = "Very High"

(***************************************************************************)
(* C9, C10: geometric sizing                                               *)
(***************************************************************************)
SizingPairFunctions == {"Claude.geometric_bet_sizing", "deepseek.calculate_geometric_sizing"}

\* C9 (as stated): geometric sizing returns 0 and raises no error whenever
\* potOnFlop <= 0 or effectiveStack <= 0, for both supported targets (2 and
\* 3 streets).
C9_DegenerateSizingIsZero ==
    /\ (/\ fn \in SizingPairFunctions
        /\ (args.potOnFlop <= 0 \/ args.effectiveStack <= 0))
           => ret = Sizing(Zero, Zero)
    /\ (/\ fn = "app4.calculate_geometric_sizing"
        /\ args.streets \in {2, 3}
        /\ (args.potOnFlop <= 0 \/ args.effectiveStack <= 0))
           => (ret.bet = Zero /\ ret.pct = Zero)

\* What the bettor puts in over n streets betting the fraction r of the
\* then-current pot on each street, with a call each time.
RECURSIVE BetsSum(_, _, _)
BetsSum(r, pot, n) ==
    IF n = 0 THEN Zero
    ELSE Only({RealAdd(bet, rest) :
                 bet \in {RealMul(r, pot)},
                 rest \in {BetsSum(r, RealAdd(pot, RealMul(Two, RealMul(r, pot))), n - 1)}})

IsReal(x) == x.k \in {"num", "alg"}

AllInAfter(pct, pot, stack, n) ==
    /\ IsReal(pct)
    /\ \E r \in {RealDiv(pct, Hundred)}, p \in {Int2Num(pot)} :
          BetsSum(r, p, n) = Int2Num(stack)

\* C10 (as stated): for potOnFlop > 0, effectiveStack > 0 and n in {2, 3},
\* betting the returned fraction r of the then-current pot on each of n
\* consecutive streets, with a call each time, puts exactly effectiveStack
\* into the pot from the bettor: the n bets sum to effectiveStack.
C10_BetsSumToStack ==
    /\ (/\ fn \in {"gemini.solve_geometric", "GPT.geo"}
        /\ args.potOnFlop > 0
        /\ args.effectiveStack > 0)
           => /\ AllInAfter(ret.pct2, args.potOnFlop, args.effectiveStack, 2)
              /\ AllInAfter(ret.pct3, args.potOnFlop, args.effectiveStack, 3)
    /\ (/\ fn = "app4.calculate_geometric_sizing"
        /\ args.streets \in {2, 3}
        /\ args.potOnFlop > 0
        /\ args.effectiveStack > 0)
           => AllInAfter(ret.pct, args.potOnFlop, args.effectiveStack, args.streets)

(***************************************************************************)
(* C11: the pot after n called bets                                        *)
(***************************************************************************)
\* The pot after n streets on each of which the fraction r of the pot is
\* bet and called: pot * (1 + 2r)^n.
RECURSIVE FinalPot(_, _, _)
FinalPot(r, pot, n) ==
    IF n = 0 THEN pot
    ELSE Only({FinalPot(r, grown, n - 1) :
                 grown \in {RealMul(pot, RealAdd(One, RealMul(Two, r)))}})

FinalPotIs(pct, pot, n, target) ==
    /\ IsReal(pct)
    /\ \E r \in {RealDiv(pct, Hundred)}, p \in {Int2Num(pot)} :
          FinalPot(r, p, n) = Int2Num(target)

FinalPotFunctions == {"gemini.solve_geometric", "Claude.geometric_bet_sizing"}

\* C11 (as stated): for potOnFlop > 0 and effectiveStack > 0, betting the
\* returned fraction r of the pot on each of the n streets (pot multiplied
\* by (1 + 2r) per street) results in a final pot equal to
\* potOnFlop + effectiveStack.
C11_FinalPotIsPotPlusStack ==
    (fn \in FinalPotFunctions /\ args.potOnFlop > 0 /\ args.effectiveStack > 0) =>
        /\ FinalPotIs(ret.pct2, args.potOnFlop, 2, args.potOnFlop + args.effectiveStack)
        /\ FinalPotIs(ret.pct3, args.potOnFlop, 3, args.potOnFlop + args.effectiveStack)

\* C11 (amended): under the same conditions the final pot equals
\* potOnFlop + 2 * effectiveStack: the bettor's stack and the caller's
\* matching chips.
C11_FinalPotIsPotPlusTwoStacks ==
    (fn \in FinalPotFunctions /\ args.potOnFlop > 0 /\ args.effectiveStack > 0) =>
        /\ FinalPotIs(ret.pct2, args.potOnFlop, 2, args.potOnFlop + 2 * args.effectiveStack)
        /\ FinalPotIs(ret.pct3, args.potOnFlop, 3, args.potOnFlop + 2 * args.effectiveStack)

C11_Witness ==
    /\ fn = "gemini.solve_geometric"
    /\ args.potOnFlop = 1
    /\ args.effectiveStack = 4
    /\ ret.pct2 = Hundred
    /\ FinalPotIs(ret.pct3, 1, 3, 9)

(***************************************************************************)
(* C12, C13: polynomial roots and closed form                              *)
(***************************************************************************)
\* The spec's closed form, in percent of the pot:
\* 100 * ((1 + 2 * ratio)^(1/n) - 1) / 2 with ratio = stack / pot.
ClosedFormPct(stack, pot, n) ==
    LET ratio == Div(Int2Num(stack), Int2Num(pot))
    IN  Only({RealMul(RealDiv(RealSub(root, One), Two), Hundred) :
                root \in {NthRoot(Add(One, Mul(Two, ratio)), n)}})

\* The whole percentage points in a sizing x >= 0 (x below 1000%).
PctFloor(x) ==
    CHOOSE k \in 0..1000 : RealLe(Int2Num(k), x) /\ RealLt(x, Int2Num(k + 1))

\* x and y are more than one percentage point apart.  Every sizing here is
\* below 1000%, so such a pair is not within 1e-6 relative tolerance.
Apart(x, y) ==
    \E fx \in {PctFloor(x)}, fy \in {PctFloor(y)} : fx - fy >= 2 \/ fy - fx >= 2

RootAndClosedFormFunctions ==
    {"Claude.geometric_bet_sizing", "deepseek.calculate_geometric_sizing",
     "gemini.solve_geometric", "GPT.geo"}

ToleranceRatios == {Rat(1, 10), Int2Num(1), Int2Num(5), Int2Num(20), Int2Num(100)}

\* C12 (as stated): for streetsRemaining in {2, 3} and ratio in
\* {0.1, 1, 5, 20, 100} the polynomial-root implementations (Claude.py,
\* deepseek.py) and the closed-form implementations (gemini.py, GPT.py)
\* return the same sizing, that of r = ((1 + 2*ratio)^(1/n) - 1) / 2, within
\* 1e-6 relative tolerance: no returned sizing is apart from the closed form.
C12_RootsAgreeWithClosedForm ==
    (/\ fn \in RootAndClosedFormFunctions
     /\ args.potOnFlop > 0
     /\ Div(Int2Num(args.effectiveStack), Int2Num(args.potOnFlop)) \in ToleranceRatios)
        => /\ IsReal(ret.pct2)
           /\ IsReal(ret.pct3)
           /\ ~Apart(ret.pct2, ClosedFormPct(args.effectiveStack, args.potOnFlop, 2))
           /\ ~Apart(ret.pct3, ClosedFormPct(args.effectiveStack, args.potOnFlop, 3))

\* lo <= x < hi for rationals lo = loN / den and hi = hiN / den.
PctBetween(x, loN, hiN, den) ==
    /\ IsReal(x)
    /\ RealLe(Rat(loN, den), x)
    /\ RealLt(x, Rat(hiN, den))

Scenario3(a) == a.effectiveStack = DefaultEffStack /\ a.potOnFlop = DefaultFlopPot

Scenario3Functions == {"Claude.geometric_bet_sizing", "gemini.solve_geometric"}

\* C13 (as stated): for effectiveStack = 100 and potOnFlop = 10 the 2-street
\* fraction, both as the positive root of 2r^2 + 2r - 10 = 0 (Claude.py) and
\* as the closed form ((1 + 20)^(1/2) - 1) / 2 (gemini.py), is approximately
\* 1.7417: the sizing lies in [174.165%, 174.175%).
C13_Scenario3Is17417 ==
    (fn \in Scenario3Functions /\ Scenario3(args)) =>
        /\ ret.pct2 = ClosedFormPct(DefaultEffStack, DefaultFlopPot, 2)
        /\ PctBetween(ret.pct2, 174165, 174175, 1000)

\* C13 (amended): on that input root and closed form are the same number,
\* (sqrt(21) - 1) / 2, approximately 1.7913 (179.1% of the pot): the sizing
\* lies in [179.125%, 179.135%).
C13_Scenario3Is17913 ==
    (fn \in Scenario3Functions /\ Scenario3(args)) =>
        /\ ret.pct2 = ClosedFormPct(DefaultEffStack, DefaultFlopPot, 2)
        /\ PctBetween(ret.pct2, 179125, 179135, 1000)

C13_Witness ==
    /\ fn = "Claude.geometric_bet_sizing"
    /\ Scenario3(args)
    /\ ret.pct2 = MkReal(<<Int2Num(-50), Int2Num(50), Zero>>, 21, 2)

(***************************************************************************)
(* C14, C15: what the sizing hands to its caller                           *)
(***************************************************************************)
\* x is a real number >= 0 that is 0 exactly when degenerate holds.
ZeroExactlyWhen(x, degenerate) ==
    /\ IsReal(x)
    /\ RealLe(Zero, x)
    /\ IsZero(x) <=> degenerate

\* C14 (as stated): geometric sizing never surfaces a NaN, a complex-root
\* artifact or a non-numeric value: for every input the result is a real
\* number >= 0, it is 0 exactly when potOnFlop <= 0 or effectiveStack <= 0,
\* and for potOnFlop > 0 and effectiveStack > 0 it is strictly positive.
C14_RealAndZeroOnlyWhenDegenerate ==
    fn \in SizingPairFunctions =>
        /\ ZeroExactlyWhen(ret.pct2, args.potOnFlop <= 0 \/ args.effectiveStack <= 0)
        /\ ZeroExactlyWhen(ret.pct3, args.potOnFlop <= 0 \/ args.effectiveStack <= 0)

NoOpResult(x) == x = Zero \/ x = PyNone

\* C15 (as stated): geometric sizing called with streetsRemaining <= 0 is a
\* no-op that returns 0 (or an undefined marker) and raises no error, for
\* any effectiveStack and potOnFlop.
C15_NoStreetsIsNoOp ==
    /\ (/\ fn \in {"gemini.solve_geometric(streets)",
                   "deepseek.calculate_geometric_sizing(streets)"}
        /\ args.streets <= 0)
           => NoOpResult(ret)
    /\ (fn = "app4.calculate_geometric_sizing" /\ args.streets <= 0)
           => (NoOpResult(ret.bet) /\ NoOpResult(ret.pct))

(***************************************************************************)
(* C16: linearity of the conversion in the token value                     *)
(***************************************************************************)
\* The conversion f applied to the inputs a with the token value t.
BountyOf(f, a, t) ==
    CASE f = "Claude.bounty_in_bb" ->
            Claude_bounty_in_bb(Int2Num(a.buyIn), Int2Num(a.startingStack),
                                Int2Num(a.currentBigBlind), Int2Num(t))
      [] f = "app4.calculate_bounty_in_bb" ->
            App4_convert(Int2Num(a.buyIn), Int2Num(a.startingStack),
                         Int2Num(t), Int2Num(a.currentBigBlind))

LinearFunctions == {"Claude.bounty_in_bb", "app4.calculate_bounty_in_bb"}

\* C16: for buyIn > 0, startingStack > 0 and currentBigBlind > 0 the
\* conversion is linear in tokenValue: converting 2 * tokenValue gives twice
\* the conversion of tokenValue, and tokenValue = 0 gives 0.
C16_LinearInTokenValue ==
    (fn \in LinearFunctions /\ ValidConversion(args)) =>
        /\ IsNum(ret)
        /\ BountyOf(fn, args, 2 * args.tokenValue) = Mul(Two, ret)
        /\ BountyOf(fn, args, 0) = Zero
        /\ args.tokenValue = 0 => ret = Zero

C16_Witness ==
    /\ fn = "Claude.bounty_in_bb"
    /\ args = Scenario1
    /\ ret = Int2Num(50)
    /\ BountyOf(fn, args, 2 * DefaultToken) = Int2Num(100)

(***************************************************************************)
(* C17: negative inputs to the required-equity computation                 *)
(***************************************************************************)
IsPercentage(x) == IsNum(x) /\ Le(Zero, x) /\ Le(x, Hundred)

\* C17 (as stated): the required-equity computation clamps negative
\* inputs: for any (possibly negative) bounty, pot or call value it raises
\* no error and returns percentages in [0, 100], with bountyAdjustedPct
\* never above standardPct.
C17_NegativeInputsClamped ==
    fn \in {"Claude.calculate_pot_odds", "deepseek.calculate_required_equity"} =>
        /\ IsPercentage(ret.std)
        /\ IsPercentage(ret.adj)
        /\ Le(ret.adj, ret.std)

(***************************************************************************)
(* C18, C19: token-tier lookup                                             *)
(***************************************************************************)
\* The multiplier of each tier 1..10.
TierMultipliers ==
    <<Rat(1, 2), Rat(3, 5), Rat(3, 4), Int2Num(1), Rat(3, 2),
      Rat(5, 2), Int2Num(5), Int2Num(10), Int2Num(20), Int2Num(50)>>

\* C18 (as stated): the lookup returns buyIn * multiplier[tier] for every
\* tier 1..10, and for the high-tier band (tier >= 11) a fixed absolute
\* floor amount that does not depend on buyIn.
C18_TierValueAndFixedFloor ==
    fn = "app3.avg_bounty_total" =>
        /\ args.villainLvl \in 1..10 =>
              ret = Mul(Int2Num(args.buyIn), TierMultipliers[args.villainLvl])
        /\ args.villainLvl >= 11 =>
              \A b2 \in BuyIns : App3_avg_bounty_total(Int2Num(b2), args.villainLvl) = ret

\* C19: for a tier index below 1 the lookup returns the value of the
\* nearest defined tier (tier 1), buyIn * 0.5, and raises nothing; it never
\* returns the value of another tier.
C19_BelowRangeClampsToTierOne ==
    (fn = "app3.avg_bounty_total" /\ args.villainLvl < 1) =>
        /\ IsNum(ret)
        /\ ret = Mul(Int2Num(args.buyIn), TierMultipliers[1])
        /\ \A t \in 2..10 :
              args.buyIn # 0 => ret # Mul(Int2Num(args.buyIn), TierMultipliers[t])

C19_Witness ==
    /\ fn = "app3.avg_bounty_total"
    /\ args.villainLvl = 0
    /\ args.buyIn = DefaultBuyIn
    /\ ret = Int2Num(5)

(***************************************************************************)
(* C20: reruns and session state                                           *)
(***************************************************************************)
\* C20: recomputation is deterministic and history-independent: after any
\* sequence of earlier runs, the outputs of a run (bounty BB, equities, SPR,
\* sizings) are those of the same inputs in a new session, so the values
\* kept in st.session_state (GPT.py bounty_bb, deepseek.py prev_values)
\* never make an output depend on the inputs of a previous run.
C20_OutputsFromCurrentInputs ==
    /\ fn = "GPT.py" => ret = GPT_script(FreshSession, args).out
    /\ fn = "deepseek.py" => ret = deepseek_script(FreshSession, args).out

\* A GPT.py run on scenario 1 in a session that an earlier deepseek.py run
\* on other inputs has written to.
C20_Witness ==
    /\ fn = "GPT.py"
    /\ args.buyIn = DefaultBuyIn /\ args.startingStack = DefaultStack
    /\ args.currentBigBlind = DefaultBB /\ args.tokenValue = DefaultToken
    /\ args.potBefore = DefaultPot /\ args.amountToCall = DefaultCall
    /\ ret.bounty_bb = Int2Num(25)
    /\ ret.equity = Pair(Int2Num(25), Rat(100, 9))
    /\ session.bounty_bb = Int2Num(25)
    /\ session.prev_values # Absent
    /\ session.prev_values.buy_in = 1

(***************************************************************************)
(* C21: the three-tier classification of the equity discount               *)
(***************************************************************************)
\* The bands of each classification, from the smallest impact to the largest.
DiscountBands(f) ==
    CASE f = "GPT.reduction_band" ->
             <<"Small Impact", "Noticeable Impact", "Significant Impact">>
      [] f = "app2.verdict" -> <<"Standard", "Significant", "HUGE DISCOUNT">>
      [] f = "app4.equity_color" -> <<"white", "yellow", "green">>

DiscountBandOf(f, d) ==
    CASE f = "GPT.reduction_band" -> GPT_reduction_band(d)
      [] f = "app2.verdict" -> App2_verdict(d)
      [] f = "app4.equity_color" -> App4_equity_color(d)

DiscountFunctions == {"GPT.reduction_band", "app2.verdict", "app4.equity_color"}

DiscountRank(f, b) == CHOOSE i \in 1..3 : DiscountBands(f)[i] = b

\* C21: the equity-discount classification has three tiers: every discount
\* >= 0 maps to exactly one of the three bands of its implementation, all
\* three bands are used, and a larger discount never maps to a lower band
\* than a smaller one.
C21_ThreeTiersMonotone ==
    (fn \in DiscountFunctions /\ Le(Zero, args.discount)) =>
        /\ \E i \in 1..3 : ret.band = DiscountBands(fn)[i]
        /\ \A i \in 1..3 : \E d \in Discounts : DiscountBandOf(fn, d) = DiscountBands(fn)[i]
        /\ \A d \in Discounts :
              Le(d, args.discount) =>
                  DiscountRank(fn, DiscountBandOf(fn, d)) <= DiscountRank(fn, ret.band)

\* A discount of exactly 3 points is in GPT.py's middle band, below the
\* band of 8 points and above the band of 2.5 points.
C21_Witness ==
    /\ fn = "GPT.reduction_band"
    /\ args.discount = Int2Num(3)
    /\ ret.band = "Noticeable Impact"
    /\ DiscountBandOf(fn, Rat(5, 2)) = "Small Impact"
    /\ DiscountBandOf(fn, Int2Num(8)) = "Significant Impact"
    /\ App2_verdict(Int2Num(3)) = "Standard"
    /\ App4_equity_color(Int2Num(3)) = "yellow"

(***************************************************************************)
(* C22..C27: the interactive tools                                         *)
(***************************************************************************)
\* C22: the chip-to-currency exchange rate is constant for the tournament.
\* In app4 the calculator (buyin, starting_stack, chip_value_per_euro)
\* changes only in a step of initialize_calculator, never in calculate, in
\* the auto_calculate of a field edit or in clear_hand; in app3 buy_in,
\* starting_stack and chip_euro_value are the same after every step taken
\* inside the hand loop.
C22_ExchangeRateConstant ==
    [][/\ gui'.app.calculator # gui.app.calculator => fn' = "app4.initialize_calculator"
       /\ cli.pc \in HandPrompts =>
              /\ cli'.buy_in = cli.buy_in
              /\ cli'.starting_stack = cli.starting_stack
              /\ cli'.chip_euro_value = cli.chip_euro_value]_vars

\* calculate has rewritten the results with the calculator of buy-in 10 and
\* stack 20000 (5000 chips per euro) although the buy-in entry now reads
\* "nan".
C22_Witness ==
    /\ fn = "app4.calculate"
    /\ ret.rewrites = 1
    /\ gui.app.buyin_var = "nan"
    /\ gui.app.calculator = App4_SpaceKOCalculator(Int2Num(10), Int2Num(20000))
    /\ gui.app.calculator.chip_value_per_euro = Int2Num(5000)

\* C23: in the app4 window, after any sequence of initialize_calculator,
\* calculate, field edits and clear_hand, the calculator is either unset
\* or holds buyin > 0 and starting_stack > 0.
C23_CalculatorUnsetOrPositive ==
    \/ gui.app.calculator = PyNone
    \/ /\ FLt(Zero, gui.app.calculator.buyin)
       /\ FLt(Zero, gui.app.calculator.starting_stack)

\* The hand entries and the street are as clear_hand leaves them.
HandCleared(app) ==
    /\ \A var \in HandVars : app[var] = ""
    /\ app.street_var = "Flop"

\* C24: clear_hand clears the hand-specific inputs and keeps the tournament
\* settings: when it returns the six hand entries are empty, the street is
\* Flop and the results widget is empty, whatever auto_calculate did on the
\* way, while the buy-in entry, the starting-stack entry and the calculator
\* are as before.
C24_ClearHandKeepsSettings ==
    [][fn' = "app4.clear_hand" =>
          /\ HandCleared(gui'.app)
          /\ gui'.app.results_text = <<>>
          /\ gui'.app.buyin_var = gui.app.buyin_var
          /\ gui'.app.stack_var = gui.app.stack_var
          /\ gui'.app.calculator = gui.app.calculator]_vars

\* clear_hand has returned after two traced calculations (the bounty, BB
\* and pot entries were filled and the calculator initialised), with the
\* settings of a 10 euro, 20000 chip tournament in place.
C24_Witness ==
    /\ fn = "app4.clear_hand"
    /\ ret.calculations = 2 /\ ret.rewrites = 2
    /\ HandCleared(gui.app)
    /\ gui.app.results_text = <<>>
    /\ gui.app.buyin_var = "10" /\ gui.app.stack_var = "20000"
    /\ gui.app.calculator.chip_value_per_euro = Int2Num(5000)

\* The text is a number (nan is not).
Numeric(text) == Py_float(text) \notin {ValueError, NaN}

\* The hand inputs pass validation: villain bounty >= 0, current BB > 0,
\* pot size >= 0, the optional entries empty or numeric.
HandValid(app) ==
    /\ Numeric(app.villain_bounty_var) /\ Le(Zero, Py_float(app.villain_bounty_var))
    /\ Numeric(app.current_bb_var) /\ Lt(Zero, Py_float(app.current_bb_var))
    /\ Numeric(app.pot_var) /\ Le(Zero, Py_float(app.pot_var))
    /\ \A var \in {"our_stack_var", "villain_stack_var", "bet_var"} :
          app[var] = "" \/ Numeric(app[var])

\* C25: calculate rewrites the results display only when the calculator is
\* initialised and the hand inputs pass validation; invoked without a
\* calculator or with an invalid input it shows a warning or an error and
\* leaves the results display exactly as it was.
C25_RewrittenOnlyWhenValid ==
    [][fn' = "app4.calculate" =>
          IF gui.app.calculator # PyNone /\ HandValid(gui.app)
          THEN ret'.rewrites = 1
          ELSE /\ ret'.rewrites = 0
               /\ ret'.dialogs \in {<<"showwarning">>, <<"showerror">>}
               /\ gui'.app.results_text = gui.app.results_text]_vars

\* The condition of auto_calculate, on the application after the edit.
AutoCalculates(app) ==
    /\ app.calculator # PyNone
    /\ app.villain_bounty_var # ""
    /\ app.current_bb_var # ""
    /\ app.pot_var # ""

\* C26: editing a hand entry runs calculate if and only if the calculator
\* is initialised and the villain-bounty, current-BB and pot entries are
\* all non-empty; otherwise the edit neither changes the results display
\* nor raises a dialog.
C26_EditCalculatesIffReady ==
    [][fn' = "app4.hand_entry" =>
          /\ ret'.calculations = (IF AutoCalculates(gui'.app) THEN 1 ELSE 0)
          /\ ~AutoCalculates(gui'.app) =>
                /\ gui'.app.results_text = gui.app.results_text
                /\ ret'.dialogs = <<>>]_vars

\* Typing into a hand entry has run calculate once and the display shows
\* the bounty of 10 euro at big blind 200: 25000 chips, 125 BB.
C26_Witness ==
    /\ fn = "app4.hand_entry"
    /\ ret = [dialogs |-> <<>>, calculations |-> 1, rewrites |-> 1]
    /\ AutoCalculates(gui.app)
    /\ Len(gui.app.results_text) = 1
    /\ gui.app.results_text[1].bounty = [bb |-> Int2Num(125), chips |-> Int2Num(25000)]

\* The locals of main that get_input fills.
App3Locals ==
    {"buy_in", "starting_stack", "bb_value", "chip_euro_value",
     "villain_shove", "current_pot", "villain_lvl", "hero_call_amount"}

\* C27: in app3, get_input returns only a value that parsed as the
\* requested numeric type (an integer for the token level, a float for the
\* rest) and prompts again after every invalid entry; in the hand loop an
\* error raised while a hand is processed (a zero total pot, for one) is
\* reported and a new hand begins, and the loop is left only on a keyboard
\* interrupt.
C27_RepromptAndContinue ==
    [][/\ fn' = "app3.get_input" =>
             IF cli'.out.kind = "Invalid input"
             THEN /\ cli'.pc = cli.pc
                  /\ \A v \in App3Locals : cli'[v] = cli[v]
             ELSE /\ IsNum(cli'[cli.pc])
                  /\ cli.pc = "villain_lvl" => cli'[cli.pc].d = 1
                  /\ cli'[cli.pc] = Py_float(args'.text)
       /\ (fn' = "app3.get_input" /\ Py_float(args'.text) = ValueError) =>
             cli'.out.kind = "Invalid input"
       /\ (fn' = "app3.get_input" /\ cli.pc = "hero_call_amount"
              /\ cli'.out.kind # "Invalid input") =>
             /\ cli'.pc = "villain_shove"
             /\ cli'.out.kind = "Error" <=>
                    Raised(App3_hand(cli'.buy_in, cli'.starting_stack, cli'.villain_shove,
                                     cli'.current_pot, cli'.villain_lvl.n,
                                     cli'.hero_call_amount).std)
       /\ (cli.pc \in HandPrompts /\ cli'.pc \notin HandPrompts) =>
             /\ fn' = "app3.KeyboardInterrupt"
             /\ cli'.pc = "exited"]_vars

\* A hand with shove, pot and call all 0 has just been reported as an error
\* (division by the zero total pot) and the tool asks for the next hand.
C27_Witness ==
    /\ fn = "app3.get_input"
    /\ args = Event("hero_call_amount", "0")
    /\ ret.kind = "Error"
    /\ cli.pc = "villain_shove"
    /\ cli.buy_in = Int2Num(10) /\ cli.starting_stack = Int2Num(10)
    /\ cli.villain_shove = Zero /\ cli.current_pot = Zero /\ cli.hero_call_amount = Zero
    /\ cli.villain_lvl = Int2Num(10)

(***************************************************************************)
(* C28: the sizing as a function of the effective stack                    *)
(***************************************************************************)
\* x is definitely larger than y: a whole percentage point lies between.
Drops(x, y) == IsReal(x) /\ IsReal(y) /\ PctFloor(x) > PctFloor(y)

\* The stacks of the model from 0 up to e.
StacksUpTo(e) == {e2 \in GeoStacks : 0 <= e2 /\ e2 <= e}

\* C28: for a fixed potOnFlop > 0 and 2 or 3 streets the geometric bet
\* fraction is non-decreasing in effectiveStack in every implementation: no
\* smaller stack has a sizing that is larger (by a percentage point or
\* more), and in particular the sizing never drops back to 0.
C28_NonDecreasingInStack ==
    /\ (fn = "Claude.geometric_bet_sizing" /\ args.potOnFlop > 0 /\ args.effectiveStack >= 0) =>
          \A e2 \in StacksUpTo(args.effectiveStack) :
              \E smaller \in {Claude_geometric_bet_sizing(Int2Num(args.potOnFlop), Int2Num(e2))} :
                  ~Drops(smaller.pct2, ret.pct2) /\ ~Drops(smaller.pct3, ret.pct3)
    /\ (/\ fn = "gemini.solve_geometric(streets)"
        /\ args.potOnFlop > 0 /\ args.effectiveStack >= 0 /\ args.streets \in {2, 3}) =>
          \A e2 \in StacksUpTo(args.effectiveStack) :
              ~Drops(gemini_solve_geometric(args.streets, Int2Num(e2), Int2Num(args.potOnFlop)),
                     ret)
    /\ (/\ fn = "deepseek.calculate_geometric_sizing(streets)"
        /\ args.potOnFlop > 0 /\ args.effectiveStack >= 0 /\ args.streets \in {2, 3}) =>
          \A e2 \in StacksUpTo(args.effectiveStack) :
              ~Drops(deepseek_calculate_geometric_sizing(Int2Num(e2), Int2Num(args.potOnFlop),
                                                         args.streets),
                     ret)

(***************************************************************************)
(* C29: the 50% cash share before or after the conversion                  *)
(***************************************************************************)
CashShareFunctions == {"GPT.bounty_bb", "gemini.bounty_in_bb", "app.cash_bb", "app2.cash_bb"}

\* The immediate-cash bounty in BB that each of the four computes on a.
CashShareResults(a) ==
    LET b == Int2Num(a.buyIn)
        s == Int2Num(a.startingStack)
        c == Int2Num(a.currentBigBlind)
        t == Int2Num(a.tokenValue)
    IN  {GPT_bounty_bb(b, s, c, t), gemini_bounty_in_bb(b, s, c, t),
         App_cash_bb(b, s, c, t), App2_cash_bb(b, s, c, t)}

\* C29: applying the 50% cash share before the conversion to BB (GPT.py)
\* and after it (gemini.py, app.py, app2.py) gives the same immediate-cash
\* bounty in BB for every buyIn > 0, startingStack > 0, currentBigBlind > 0
\* and tokenValue >= 0.
C29_CashShareCommutes ==
    (fn \in CashShareFunctions /\ ValidConversion(args)) =>
        CashShareResults(args) = {ret}

\* gemini.py on scenario 1 returns 25 BB, as the other three do.
C29_Witness ==
    /\ fn = "gemini.bounty_in_bb"
    /\ args = Scenario1
    /\ ret = Int2Num(25)
    /\ CashShareResults(args) = {Int2Num(25)}

====
